---- MODULE Spec2Model ----
(***************************************************************************)
(* Converso retrieval backend: the strategy selector, the three retrieval  *)
(* strategies of RetrievalService over the DocumentStore, and the          *)
(* conversation memory of VectorStoreManager.                              *)
(*                                                                         *)
(* Text is a sequence of one-character strings, so that lower(), split()   *)
(* and the substring test `in` are computed as Python computes them.       *)
(* Scores are exact rationals <<numerator, denominator>>.                  *)
(***************************************************************************)
EXTENDS Integers, Sequences, FiniteSets, TLC

VARIABLES docStore, nextDocId, memory, clock, call, ret, conversations, deleted, frames

vars == <<docStore, nextDocId, memory, clock, call, ret, conversations, deleted, frames>>

(***************************************************************************)
(* Bounds of the model.                                                    *)
(***************************************************************************)
DocIds == {1, 2}   \* the ids uuid4() gives the documents ever uploaded
Convs == {1, 2}    \* the conversation ids in use
MaxFill == 12      \* filler tokens appended to a selector query
MaxK == 2          \* largest k of a retrieve or relevant_memory call
MaxStored == 3     \* records the Chroma directory holds at most, both collections
MaxPad == 405      \* filler words appended to a scored chunk
MaxTotal == 3      \* largest total_chunks of a scored chunk
MaxTurns == 2      \* chat turns stored at most

(***************************************************************************)
(* Text: str.lower(), str.split(), and the substring test.                 *)
(***************************************************************************)
UpperAlpha == <<"A","B","C","D","E","F","G","H","I","J","K","L","M",
                "N","O","P","Q","R","S","T","U","V","W","X","Y","Z">>
LowerAlpha == <<"a","b","c","d","e","f","g","h","i","j","k","l","m",
                "n","o","p","q","r","s","t","u","v","w","x","y","z">>

IsSpace(c) == c \in {" ", "\t", "\n"}

LowerChar(c) ==
    IF \E i \in 1..26 : UpperAlpha[i] = c
    THEN LowerAlpha[CHOOSE i \in 1..26 : UpperAlpha[i] = c]
    ELSE c

\* str.lower(), built as a tuple
Lower(s) == SubSeq([i \in 1..Len(s) |-> LowerChar(s[i])], 1, Len(s))

\* positions where a whitespace-delimited token starts
TokenStarts(s) ==
    {i \in 1..Len(s) : ~IsSpace(s[i]) /\ (i = 1 \/ IsSpace(s[i-1]))}

TokenEnd(s, i) ==
    CHOOSE j \in i..Len(s) :
        /\ \A m \in i..j : ~IsSpace(s[m])
        /\ (j = Len(s) \/ IsSpace(s[j+1]))

\* str.split() with no argument: the tokens in order, none of them empty
Split(s) ==
    LET starts == TokenStarts(s)
        nth(n) == CHOOSE i \in starts : Cardinality({j \in starts : j <= i}) = n
    IN  [n \in 1..Cardinality(starts) |-> SubSeq(s, nth(n), TokenEnd(s, nth(n)))]

\* len(s.split())
WordCount(s) == Cardinality(TokenStarts(s))

\* set(s.split())
TokenSet(s) == {SubSeq(s, i, TokenEnd(s, i)) : i \in TokenStarts(s)}

\* needle in hay (Python substring test on str)
Contains(hay, needle) ==
    \E i \in 0..(Len(hay) - Len(needle)) :
        \A j \in 1..Len(needle) : hay[i + j] = needle[j]

(***************************************************************************)
(* RetrievalService._select_retrieval_method                               *)
(***************************************************************************)
complex_indicators ==
    << <<"h","o","w">>, <<"w","h","y">>, <<"w","h","a","t">>,
       <<"e","x","p","l","a","i","n">>, <<"c","o","m","p","a","r","e">>,
       <<"d","i","f","f","e","r","e","n","c","e">>,
       <<"a","n","d">>, <<"o","r">>, <<"b","u","t">> >>

HasComplexIndicatorTokens(query) ==
    \E i \in 1..Len(complex_indicators) :
        complex_indicators[i] \in TokenSet(Lower(query))

\* any(indicator in query_lower for indicator in complex_indicators)
HasComplexIndicators(query) ==
    \E i \in 1..Len(complex_indicators) :
        Contains(Lower(query), complex_indicators[i])

SelectShortLt(query) ==
    LET query_length == Len(Split(query))
    IN  IF query_length < 5 THEN "similarity"
        ELSE IF HasComplexIndicators(query) \/ query_length > 10 THEN "rerank"
        ELSE "hybrid"

SelectAndLong(query) ==
    LET query_length == Len(Split(query))
    IN  IF query_length <= 5 THEN "similarity"
        ELSE IF HasComplexIndicators(query) /\ query_length > 10 THEN "rerank"
        ELSE "hybrid"

SelectLongGe(query) ==
    LET query_length == Len(Split(query))
    IN  IF query_length <= 5 THEN "similarity"
        ELSE IF HasComplexIndicators(query) \/ query_length >= 10 THEN "rerank"
        ELSE "hybrid"

SelectRetrievalMethod(query) ==
    LET query_length == Len(Split(query))
    IN  IF query_length <= 5 THEN "similarity"
        ELSE IF HasComplexIndicators(query) \/ query_length > 10 THEN "rerank"
        ELSE "hybrid"

(***************************************************************************)
(* Inputs of the selector: up to two words of a vocabulary followed by     *)
(* filler tokens, joined by one of several whitespace layouts.             *)
(***************************************************************************)
W_cat == <<"c","a","t">>
W_dog == <<"d","o","g">>
W_Android == <<"A","n","d","r","o","i","d">>
W_actOR == <<"a","c","t","O","R">>
W_WHY == <<"W","H","Y">>
W_zz == <<"z","z">>

SelectVocab == {W_cat, W_dog, W_Android, W_actOR, W_WHY}

RECURSIVE Join(_, _)
\* sep.join(words)
Join(words, sep) ==
    IF Len(words) = 0 THEN <<>>
    ELSE IF Len(words) = 1 THEN words[1]
    ELSE words[1] \o sep \o Join(Tail(words), sep)

Fill(n) == [i \in 1..n |-> W_zz]

SelectWordLists ==
    {pre \o Fill(n) :
        pre \in {<<>>} \cup {<<w>> : w \in SelectVocab}
                       \cup {<<v, w>> : v \in {W_cat, W_dog}, w \in SelectVocab},
        n \in 0..MaxFill}

Layouts == { [lead |-> <<>>, sep |-> <<" ">>, trail |-> <<>>],
             [lead |-> <<" ">>, sep |-> <<" ", "\t">>, trail |-> <<"\n">>] }

SelectQueries ==
    {l.lead \o Join(ws, l.sep) \o l.trail : ws \in SelectWordLists, l \in Layouts}

NoPrev == [status |-> "none", value |-> <<>>]

NoRet ==
    [status |-> "none", value |-> <<>>, scored |-> <<>>, again |-> FALSE, prev |-> NoPrev,
     method_used |-> ""]

NoCall == [op |-> "none"]

\* the response record of a call that is not compared with an earlier one
Response(status, value) ==
    [status |-> status, value |-> value, scored |-> <<>>, again |-> FALSE, prev |-> NoPrev,
     method_used |-> ""]

\* state of the parts a specification leaves alone
IdleStores ==
    /\ docStore = <<>>
    /\ nextDocId = 1
    /\ memory = <<>>
    /\ clock = 0
    /\ conversations = <<>>
    /\ deleted = {}
    /\ frames = <<>>

InitSelect ==
    /\ IdleStores
    /\ call \in {[op |-> "select", query |-> q] : q \in SelectQueries}
    /\ ret = NoRet

DoSelect ==
    /\ call.op = "select"
    /\ ret.status = "none"
    /\ ret' = Response("ok", SelectRetrievalMethod(call.query))
    /\ UNCHANGED <<docStore, nextDocId, memory, clock, conversations, deleted, call, frames>>

NextSelect == DoSelect

SpecSelect == InitSelect /\ [][NextSelect]_vars

\* C4: every query of at most 5 whitespace tokens (the empty and the
\* whitespace-only query included) is classified similarity, with or without
\* an indicator substring.
C4_ShortIsSimilarity ==
    (call.op = "select" /\ ret.status = "ok" /\ WordCount(call.query) <= 5)
        => ret.value = "similarity"

C4_Witness ==
    /\ call.op = "select" /\ ret.status = "ok"
    /\ WordCount(call.query) = 5
    /\ HasComplexIndicators(call.query)
    /\ ret.value = "similarity"

\* C5: every query of more than 10 whitespace tokens is classified rerank,
\* with or without an indicator substring.
C5_LongIsRerank ==
    (call.op = "select" /\ ret.status = "ok" /\ WordCount(call.query) > 10)
        => ret.value = "rerank"

C5_Witness ==
    /\ call.op = "select" /\ ret.status = "ok"
    /\ WordCount(call.query) = 11
    /\ ~HasComplexIndicators(call.query)
    /\ ret.value = "rerank"

\* C6: every query of 6 to 10 whitespace tokens whose lower-cased text
\* contains no indicator as a substring is classified hybrid.
C6_MediumPlainIsHybrid ==
    (/\ call.op = "select" /\ ret.status = "ok"
     /\ WordCount(call.query) >= 6 /\ WordCount(call.query) <= 10
     /\ \A i \in 1..Len(complex_indicators) :
            ~Contains(Lower(call.query), complex_indicators[i]))
        => ret.value = "hybrid"

C6_Witness ==
    /\ call.op = "select" /\ ret.status = "ok"
    /\ WordCount(call.query) = 10
    /\ ~HasComplexIndicators(call.query)
    /\ ret.value = "hybrid"

\* the indicators that occur in the lower-cased query as substrings
IndicatorsInside(query) ==
    {i \in 1..Len(complex_indicators) : Contains(Lower(query), complex_indicators[i])}

\* C19: the indicator test is a case-insensitive substring match on the whole
\* query, not a token match: a query of 6 to 10 tokens in which an indicator
\* occurs only inside a longer word ('and' in 'Android', 'or' in 'actOR'), in
\* any letter case, is classified rerank.
C19_IndicatorInsideWordIsRerank ==
    (/\ call.op = "select" /\ ret.status = "ok"
     /\ WordCount(call.query) >= 6 /\ WordCount(call.query) <= 10
     /\ IndicatorsInside(call.query) # {}
     /\ \A i \in IndicatorsInside(call.query) :
            complex_indicators[i] \notin TokenSet(Lower(call.query)))
        => ret.value = "rerank"

\* six tokens, one of them 'Android', none of them an indicator
C19_Witness ==
    /\ call.op = "select" /\ ret.status = "ok"
    /\ WordCount(call.query) = 6
    /\ W_Android \in TokenSet(call.query)
    /\ \A i \in 1..Len(complex_indicators) :
          complex_indicators[i] \notin TokenSet(Lower(call.query))
    /\ ret.value = "rerank"

(***************************************************************************)
(* Exact rationals <<n, d>> with d > 0, for the scores.                    *)
(***************************************************************************)
RECURSIVE Gcd(_, _)
Gcd(x, y) == IF y = 0 THEN x ELSE Gcd(y, x % y)

\* the fraction n/d in lowest terms
Rat(n, d) ==
    LET g == Gcd(IF n < 0 THEN -n ELSE n, d)
    IN  <<n \div g, d \div g>>

RLe(a, b) == a[1] * b[2] <= b[1] * a[2]

RLt(a, b) == a[1] * b[2] < b[1] * a[2]

REq(a, b) == a[1] * b[2] = b[1] * a[2]

RAdd(a, b) == Rat(a[1] * b[2] + b[1] * a[2], a[2] * b[2])

RSub(a, b) == Rat(a[1] * b[2] - b[1] * a[2], a[2] * b[2])

RMul(a, b) == Rat(a[1] * b[1], a[2] * b[2])

\* max(a, b) and min(a, b): Python returns the first argument on a tie
RMax(a, b) == IF RLt(a, b) THEN b ELSE a

RMin(a, b) == IF RLt(b, a) THEN b ELSE a

Abs(x) == IF x < 0 THEN -x ELSE x

IntMax(x, y) == IF x < y THEN y ELSE x

(***************************************************************************)
(* The scoring of one candidate: RetrievalService._hybrid_search 96-101    *)
(* and RetrievalService._reranked_search 128-154.  query_keywords is a set;*)
(* kwOrder is the order in which the generator happens to iterate it.      *)
(***************************************************************************)
\* the enumerations of a finite set
Orders(S) ==
    {f \in [1..Cardinality(S) -> S] : \A i, j \in 1..Cardinality(S) : f[i] = f[j] => i = j}

KeywordMatchesFirstOnly(kwOrder, content_lower) ==
    IF Len(kwOrder) > 0 /\ Contains(content_lower, kwOrder[1]) THEN 1 ELSE 0

\* sum(1 for keyword in query_keywords if keyword in content_lower)
KeywordMatches(kwOrder, content_lower) ==
    Cardinality({i \in 1..Len(kwOrder) : Contains(content_lower, kwOrder[i])})

HybridScoreNoLower(kwOrder, doc) ==
    LET keyword_matches == KeywordMatches(kwOrder, doc.page_content)
    IN  IF Len(kwOrder) # 0 THEN Rat(keyword_matches, Len(kwOrder)) ELSE Rat(0, 1)

\* _hybrid_search: score = keyword_matches / len(query_keywords) if query_keywords else 0
HybridScore(kwOrder, doc) ==
    LET content_lower == Lower(doc.page_content)
        keyword_matches == KeywordMatches(kwOrder, content_lower)
    IN  IF Len(kwOrder) # 0 THEN Rat(keyword_matches, Len(kwOrder)) ELSE Rat(0, 1)

ideal_length == 200

PositionScoreNoFloor(doc) ==
    LET chunk_index == doc.metadata.chunk_index
        total_chunks == doc.metadata.total_chunks
    IN  RSub(Rat(1, 1), Rat(chunk_index, IntMax(total_chunks, 1)))

\* position_score = max(0.5, 1.0 - chunk_index / max(total_chunks, 1))
PositionScore(doc) ==
    LET chunk_index == doc.metadata.chunk_index
        total_chunks == doc.metadata.total_chunks
        position_score == RSub(Rat(1, 1), Rat(chunk_index, IntMax(total_chunks, 1)))
    IN  RMax(Rat(1, 2), position_score)

LengthScoreNoClamp(doc) ==
    LET content_length == WordCount(doc.page_content)
    IN  RSub(Rat(1, 1), Rat(Abs(content_length - ideal_length), ideal_length))

\* a variant that measures the content in characters
LengthScoreOfCharacters(doc) ==
    LET content_length == Len(doc.page_content)
        length_score == RSub(Rat(1, 1), Rat(Abs(content_length - ideal_length), ideal_length))
    IN  RMax(Rat(0, 1), RMin(Rat(1, 1), length_score))

\* length_score = max(0, min(1, 1.0 - abs(content_length - ideal_length) / ideal_length))
LengthScore(doc) ==
    LET content_length == WordCount(doc.page_content)
        length_score == RSub(Rat(1, 1), Rat(Abs(content_length - ideal_length), ideal_length))
    IN  RMax(Rat(0, 1), RMin(Rat(1, 1), length_score))

\* keyword_score = keyword_matches / query_length if query_length > 0 else 0
RerankKeywordScore(kwOrder, doc) ==
    LET content_lower == Lower(doc.page_content)
        query_length == Len(kwOrder)
        keyword_matches == KeywordMatches(kwOrder, content_lower)
    IN  IF query_length > 0 THEN Rat(keyword_matches, query_length) ELSE Rat(0, 1)

\* the locals of one iteration of the rerank loop; final_score is the
\* one-element tuple the trailing comma of the source makes of the sum
RerankFactors(kwOrder, doc) ==
    LET keyword_score == RerankKeywordScore(kwOrder, doc)
        length_score == LengthScore(doc)
        position_score == PositionScore(doc)
    IN  [doc |-> doc,
         keyword_score |-> keyword_score,
         length_score |-> length_score,
         position_score |-> position_score,
         final_score |-> << RAdd(RAdd(RMul(keyword_score, Rat(1, 2)),
                                      RMul(length_score, Rat(1, 5))),
                                 RMul(position_score, Rat(3, 10))) >>]

(***************************************************************************)
(* Texts of the stored chunks and the queries of the retrieval calls.      *)
(***************************************************************************)
T_cat_sat == <<"T","h","e"," ","C","a","t"," ","s","a","t">>
T_cat_dog_bird == <<"c","a","t"," ","d","o","g"," ","b","i","r","d">>
T_unrelated == <<"u","n","r","e","l","a","t","e","d"," ","t","e","x","t">>

Q_cat_dog == <<"c","a","t"," ","d","o","g">>
Q_dup == <<"C","a","t"," ","c","a","t"," "," ","D","O","G">>
Q_sub == <<"A","T"," ","a","t"," "," ","d","o">>
Q_blank == <<" ","\t">>
Q_six == <<"d","o","g"," ","x"," ","d","o","g"," ","x"," ","d","o","g"," ","x">>
Q_six_or == <<"c","a","t"," ","o","r"," ","c","a","t"," ","O","R"," ","c","a","t"," ","o","r">>

Chunk(document_id, chunk_index, total_chunks, page_content) ==
    [page_content |-> page_content,
     metadata |-> [document_id |-> document_id,
                   chunk_index |-> chunk_index,
                   total_chunks |-> total_chunks]]

(***************************************************************************)
(* The rerank factors as a function: one chunk, one query.  The chunk is a *)
(* text followed by 0..MaxPad filler words, at any position of a document  *)
(* of up to MaxTotal chunks.                                               *)
(***************************************************************************)
Pad(n) == [i \in 1..(2 * n) |-> IF i % 2 = 1 THEN " " ELSE "z"]

ScoreChunks ==
    {Chunk(1, idx, total, head \o Pad(n)) :
        head \in {<<>>, T_cat_dog_bird},
        n \in 0..MaxPad,
        idx \in 0..(MaxTotal - 1),
        total \in 1..MaxTotal}

InitScore ==
    /\ IdleStores
    /\ call \in {[op |-> "score", query |-> q, doc |-> c] :
                    q \in {Q_dup, Q_blank},
                    c \in {d \in ScoreChunks : d.metadata.chunk_index < d.metadata.total_chunks}}
    /\ ret = NoRet

DoScore ==
    /\ call.op = "score"
    /\ ret.status = "none"
    /\ \E kwOrder \in Orders(TokenSet(Lower(call.query))) :
          ret' = Response("ok", RerankFactors(kwOrder, call.doc))
    /\ UNCHANGED <<docStore, nextDocId, memory, clock, conversations, deleted, call, frames>>

NextScore == DoScore

SpecScore == InitScore /\ [][NextScore]_vars

InUnit(r) == RLe(Rat(0, 1), r) /\ RLe(r, Rat(1, 1))

\* C9: for a chunk with 0 <= chunk_index < total_chunks and any query, the
\* rerank factors keyword_score, length_score and position_score lie in
\* [0,1], and final_score is their weighted sum 0.5, 0.2, 0.3 and lies in
\* [0,1].
C9_FactorBounds ==
    (call.op = "score" /\ ret.status = "ok")
        => /\ InUnit(ret.value.keyword_score)
           /\ InUnit(ret.value.length_score)
           /\ InUnit(ret.value.position_score)
           /\ InUnit(ret.value.final_score[1])
           /\ REq(RMul(ret.value.final_score[1], Rat(10, 1)),
                  RAdd(RAdd(RMul(ret.value.keyword_score, Rat(5, 1)),
                            RMul(ret.value.length_score, Rat(2, 1))),
                       RMul(ret.value.position_score, Rat(3, 1))))

\* a chunk of more than 400 words, where the unclamped length term is negative
C9_Witness ==
    /\ call.op = "score" /\ ret.status = "ok"
    /\ WordCount(call.doc.page_content) > 2 * ideal_length
    /\ REq(ret.value.keyword_score, Rat(1, 1))
    /\ REq(ret.value.length_score, Rat(0, 1))
    /\ call.doc.metadata.chunk_index = 0

IsLastChunk(doc) == doc.metadata.chunk_index = doc.metadata.total_chunks - 1

\* C10 as stated: the last chunk of a document of any total_chunks >= 1 has
\* position_score exactly 0.5.
C10_LastChunkIsHalf ==
    (call.op = "score" /\ ret.status = "ok" /\ IsLastChunk(call.doc))
        => REq(ret.value.position_score, Rat(1, 2))

\* C10 amended: the last chunk of a document of total_chunks >= 2 has
\* position_score exactly 0.5; the only chunk of a one-chunk document has
\* position_score 1.
C10_LastChunkIsHalfFromTwo ==
    (call.op = "score" /\ ret.status = "ok" /\ IsLastChunk(call.doc))
        => IF call.doc.metadata.total_chunks >= 2
           THEN REq(ret.value.position_score, Rat(1, 2))
           ELSE REq(ret.value.position_score, Rat(1, 1))

C10_Witness ==
    /\ call.op = "score" /\ ret.status = "ok"
    /\ call.doc.metadata.total_chunks = 3
    /\ call.doc.metadata.chunk_index = 2
    /\ REq(ret.value.position_score, Rat(1, 2))

(***************************************************************************)
(* The document collection (DocumentStore._store, collection               *)
(* "document_chunks").  docStore lists the stored chunks in the order the  *)
(* backend's similarity search ranks them; the embedding distance is not   *)
(* modelled, so a new chunk may rank anywhere among the stored ones.       *)
(***************************************************************************)
Range(s) == {s[i] : i \in 1..Len(s)}

Min(x, y) == IF x < y THEN x ELSE y

\* s[:n] for n >= 0
Take(s, n) == SubSeq(s, 1, Min(n, Len(s)))

\* the chunk lists DocumentProcessor.chunk_text hands to store_document
Uploads ==
    { <<T_cat_sat>>,
      <<T_cat_dog_bird, T_unrelated>> }

InsertAt(s, p, x) == SubSeq(s, 1, p) \o <<x>> \o SubSeq(s, p + 1, Len(s))

RECURSIVE Interleavings(_, _)
\* the rankings of the chunks of `old` and `new` together that keep the
\* relative ranking of `old`: each new chunk may rank anywhere
Interleavings(old, new) ==
    IF new = <<>> THEN {old}
    ELSE UNION { {InsertAt(s, p, Head(new)) : p \in 0..Len(s)} :
                    s \in Interleavings(old, Tail(new)) }

\* DocumentStore.store_document, lines 48-58: the Documents it builds
NewChunks(document_id, chunks) ==
    [idx \in 1..Len(chunks) |-> Chunk(document_id, idx - 1, Len(chunks), chunks[idx])]

\* The service handles one request at a time: an operation starts when no
\* response is pending, and Return hands the response to the caller.
Idle == call = NoCall

\* records held by the two collections of the Chroma directory
Stored == Len(docStore) + Len(memory)

\* DocumentStore.store_document; fails says whether the backend raises
\* during the call (add_documents is not guarded: the exception leaves)
StoreDocument ==
    /\ Idle
    /\ nextDocId \in DocIds
    /\ \E chunks \in Uploads, fails \in BOOLEAN :
        /\ Stored + Len(chunks) <= MaxStored
        /\ call' = [op |-> "store_document", fails |-> fails]
        /\ IF fails
           THEN /\ UNCHANGED <<docStore, nextDocId>>
                /\ ret' = Response("raised", <<>>)
           ELSE /\ docStore' \in Interleavings(docStore, NewChunks(nextDocId, chunks))
                /\ nextDocId' = nextDocId + 1
                /\ ret' = Response("ok", <<nextDocId>>)
        /\ UNCHANGED <<memory, clock, conversations, deleted, frames>>

\* the collection after delete_document removed only the first chunk it found
WithoutFirstChunkOf(store, document_id) ==
    LET hits == {i \in 1..Len(store) : store[i].metadata.document_id = document_id}
        first == CHOOSE i \in hits : \A j \in hits : i <= j
    IN  IF hits = {} THEN store
        ELSE SubSeq(store, 1, first - 1) \o SubSeq(store, first + 1, Len(store))

\* delete_document, lines 106-112: the ids of every chunk whose document_id
\* is the given one are fetched and deleted; the collection that remains
WithoutDocument(store, document_id) ==
    SelectSeq(store, LAMBDA c : c.metadata.document_id # document_id)

\* DocumentStore.delete_document: True, or False when the backend raises.
\* deleted records the documents whose deletion returned True.
DeleteDocument ==
    /\ Idle
    /\ \E document_id \in DocIds, fails \in BOOLEAN :
        /\ document_id < nextDocId
        /\ call' = [op |-> "delete_document", document_id |-> document_id, fails |-> fails]
        /\ IF fails
           THEN /\ docStore' = docStore
                /\ deleted' = deleted
                /\ ret' = Response("ok", <<FALSE>>)
           ELSE /\ docStore' = WithoutDocument(docStore, document_id)
                /\ deleted' = deleted \cup {document_id}
                /\ ret' = Response("ok", <<TRUE>>)
        /\ UNCHANGED <<nextDocId, memory, clock, conversations, frames>>

\* the handler returns: its response is delivered and its locals are gone
Return ==
    /\ call.op \in {"store_document", "delete_document", "retrieve",
                    "relevant_memory", "recent_memory", "store_turn",
                    "chat", "delete_conversation"}
    /\ call' = NoCall
    /\ ret' = NoRet
    /\ UNCHANGED <<docStore, nextDocId, memory, clock, conversations, deleted, frames>>

(***************************************************************************)
(* DocumentStore.search_similar and the three strategies of                *)
(* RetrievalService.  A result is [raised, docs, scored]: whether an       *)
(* exception leaves the method, the list it returns, and the scored_results*)
(* list it built before sorting.                                           *)
(***************************************************************************)
Returned(docs, scored) == [raised |-> FALSE, docs |-> docs, scored |-> scored]

Raises == [raised |-> TRUE, docs |-> <<>>, scored |-> <<>>]

\* Chroma.similarity_search(query, k, filter=None) on the document
\* collection: the k best-ranked chunks, or an exception
StoreSimilaritySearch(store, fails, k) ==
    IF fails THEN Raises ELSE Returned(Take(store, k), <<>>)

SearchSimilarNoCatch(store, fails, query, k) ==
    StoreSimilaritySearch(store, fails, k)

\* DocumentStore.search_similar: try / except Exception: return []
SearchSimilar(store, fails, query, k) ==
    LET r == StoreSimilaritySearch(store, fails, k)
    IN  IF r.raised THEN Returned(<<>>, <<>>) ELSE r

\* an optional argument: unset (None) or a value
NoMethod == [set |-> FALSE, val |-> ""]

NoDocIds == [set |-> FALSE, val |-> <<>>]

Some(v) == [set |-> TRUE, val |-> v]

\* Python truthiness of an optional str and of an optional list: None, ""
\* and [] are falsy
TruthyStr(opt) == opt.set /\ opt.val # ""

\* a variant that tests `is not None`
ListIsNotNone(opt) == opt.set

TruthyList(opt) == opt.set /\ opt.val # <<>>

SimilaritySearchFetchK(store, fails, query, k, document_ids) ==
    IF TruthyList(document_ids)
    THEN LET results == SearchSimilar(store, fails, query, k)
             filtered == SelectSeq(results.docs,
                             LAMBDA doc : doc.metadata.document_id \in Range(document_ids.val))
         IN  IF results.raised THEN results ELSE Returned(Take(filtered, k), <<>>)
    ELSE SearchSimilar(store, fails, query, k)

SimilaritySearchRefetch(store, fails, query, k, document_ids) ==
    IF TruthyList(document_ids)
    THEN LET results == SearchSimilar(store, fails, query, k * 2)
             filtered == SelectSeq(results.docs,
                             LAMBDA doc : doc.metadata.document_id \in Range(document_ids.val))
             again == SearchSimilar(store, fails, query, Len(store))
             refiltered == SelectSeq(again.docs,
                             LAMBDA doc : doc.metadata.document_id \in Range(document_ids.val))
         IN  IF results.raised THEN results
             ELSE IF Len(filtered) < k THEN Returned(Take(refiltered, k), <<>>)
             ELSE Returned(Take(filtered, k), <<>>)
    ELSE SearchSimilar(store, fails, query, k)

SimilaritySearchNoTruncate(store, fails, query, k, document_ids) ==
    IF TruthyList(document_ids)
    THEN LET results == SearchSimilar(store, fails, query, k * 2)
             filtered == SelectSeq(results.docs,
                             LAMBDA doc : doc.metadata.document_id \in Range(document_ids.val))
         IN  IF results.raised THEN results ELSE Returned(filtered, <<>>)
    ELSE SearchSimilar(store, fails, query, k)

\* RetrievalService._similarity_search
SimilaritySearch(store, fails, query, k, document_ids) ==
    IF TruthyList(document_ids)
    THEN LET results == SearchSimilar(store, fails, query, k * 2)
             filtered == SelectSeq(results.docs,
                             LAMBDA doc : doc.metadata.document_id \in Range(document_ids.val))
         IN  IF results.raised THEN results ELSE Returned(Take(filtered, k), <<>>)
    ELSE SearchSimilar(store, fails, query, k)

\* list.sort(key=..., reverse=True): descending, equal keys keep their order;
\* key[i] is the (rational) sort key of s[i]
SortDescStable(s, key) ==
    LET n == Len(s)
        rank(i) == Cardinality({j \in 1..n : RLt(key[i], key[j])})
                   + Cardinality({j \in 1..i : REq(key[j], key[i])})
    IN  [p \in 1..n |-> s[CHOOSE i \in 1..n : rank(i) = p]]

RECURSIVE HybridScored(_, _)
\* the loop of _hybrid_search: scored_results.append((score, doc)) per doc
HybridScored(kwOrder, docs) ==
    IF docs = <<>> THEN <<>>
    ELSE <<[score |-> HybridScore(kwOrder, Head(docs)), doc |-> Head(docs)]>>
         \o HybridScored(kwOrder, Tail(docs))

\* [doc for _, doc in scored_results[:k]]
TopDocs(sorted, k) == [i \in 1..Min(k, Len(sorted)) |-> sorted[i].doc]

HybridSearchPoolK(store, fails, query, k, document_ids, kwOrder) ==
    LET similarity_results == SimilaritySearch(store, fails, query, k, document_ids)
        scored_results == HybridScored(kwOrder, similarity_results.docs)
        sorted == SortDescStable(scored_results,
                                [i \in 1..Len(scored_results) |-> scored_results[i].score])
    IN  IF similarity_results.raised THEN similarity_results
        ELSE Returned(TopDocs(sorted, k), scored_results)

Reverse(s) == [i \in 1..Len(s) |-> s[Len(s) + 1 - i]]

\* a variant that sorts ascending and reverses, so that ties come out in the
\* reverse of the incoming order
HybridSearchSortThenReverse(store, fails, query, k, document_ids, kwOrder) ==
    LET similarity_results == SimilaritySearch(store, fails, query, k * 2, document_ids)
        scored_results == HybridScored(kwOrder, similarity_results.docs)
        sorted == SortDescStable(Reverse(scored_results),
                                 Reverse([i \in 1..Len(scored_results) |-> scored_results[i].score]))
    IN  IF similarity_results.raised THEN similarity_results
        ELSE Returned(TopDocs(sorted, k), scored_results)

\* RetrievalService._hybrid_search
HybridSearch(store, fails, query, k, document_ids, kwOrder) ==
    LET similarity_results == SimilaritySearch(store, fails, query, k * 2, document_ids)
        scored_results == HybridScored(kwOrder, similarity_results.docs)
        sorted == SortDescStable(scored_results,
                                [i \in 1..Len(scored_results) |-> scored_results[i].score])
    IN  IF similarity_results.raised THEN similarity_results
        ELSE Returned(TopDocs(sorted, k), scored_results)

RECURSIVE RerankScored(_, _)
\* the loop of _reranked_search: scored_results.append((final_score, doc))
RerankScored(kwOrder, docs) ==
    IF docs = <<>> THEN <<>>
    ELSE <<RerankFactors(kwOrder, Head(docs))>> \o RerankScored(kwOrder, Tail(docs))

\* the comparison of two tuples of numbers: by the first position where they
\* differ, a proper prefix being the smaller
TupleLt(t, u) ==
    \E p \in 1..(Min(Len(t), Len(u)) + 1) :
        /\ \A q \in 1..(p - 1) : REq(t[q], u[q])
        /\ IF p <= Min(Len(t), Len(u)) THEN RLt(t[p], u[p]) ELSE Len(t) < Len(u)

TupleEq(t, u) == Len(t) = Len(u) /\ \A q \in 1..Len(t) : REq(t[q], u[q])

\* list.sort(key=..., reverse=True) where the keys are tuples
SortTuplesDescStable(s, key) ==
    LET n == Len(s)
        rank(i) == Cardinality({j \in 1..n : TupleLt(key[i], key[j])})
                   + Cardinality({j \in 1..i : TupleEq(key[j], key[i])})
    IN  [p \in 1..n |-> s[CHOOSE i \in 1..n : rank(i) = p]]

\* a variant that sorts the candidates by keyword_score alone
RerankedSearchByKeywordScore(store, fails, query, k, document_ids, kwOrder) ==
    LET candidates == SimilaritySearch(store, fails, query, k * 3, document_ids)
        scored_results == RerankScored(kwOrder, candidates.docs)
        sorted == SortDescStable(scored_results,
                      [i \in 1..Len(scored_results) |-> scored_results[i].keyword_score])
    IN  IF candidates.raised THEN candidates
        ELSE IF candidates.docs = <<>> THEN Returned(<<>>, <<>>)
        ELSE Returned(TopDocs(sorted, k), scored_results)

\* RetrievalService._reranked_search
RerankedSearch(store, fails, query, k, document_ids, kwOrder) ==
    LET candidates == SimilaritySearch(store, fails, query, k * 3, document_ids)
        scored_results == RerankScored(kwOrder, candidates.docs)
        sorted == SortTuplesDescStable(scored_results,
                      [i \in 1..Len(scored_results) |-> scored_results[i].final_score])
    IN  IF candidates.raised THEN candidates
        ELSE IF candidates.docs = <<>> THEN Returned(<<>>, <<>>)
        ELSE Returned(TopDocs(sorted, k), scored_results)

RetrieveUnknownIsHybrid(store, fails, query, retrieval_method, k, document_ids, kwOrder) ==
    LET method == IF ~TruthyStr(retrieval_method)
                  THEN SelectRetrievalMethod(query) ELSE retrieval_method.val
    IN  IF method = "similarity"
        THEN SimilaritySearch(store, fails, query, k, document_ids)
        ELSE IF method = "rerank"
        THEN RerankedSearch(store, fails, query, k, document_ids, kwOrder)
        ELSE HybridSearch(store, fails, query, k, document_ids, kwOrder)

\* the queries of the retrieve calls
Queries == {Q_cat_dog, Q_sub, Q_blank, Q_six, Q_six_or}

\* _select_retrieval_method on each of these queries, computed once
SelectedMethod == [q \in Queries |-> SelectRetrievalMethod(q)]

\* the orders in which set(query.lower().split()) may iterate, per query
KeywordOrders == [q \in Queries |-> Orders(TokenSet(Lower(q)))]

MethodUsedUnsetIsSimilarity(query, retrieval_method) ==
    IF ~TruthyStr(retrieval_method) THEN "similarity" ELSE retrieval_method.val

\* the method retrieve() dispatches on
MethodUsed(query, retrieval_method) ==
    IF ~TruthyStr(retrieval_method) THEN SelectedMethod[query] ELSE retrieval_method.val

\* RetrievalService.retrieve
Retrieve(store, fails, query, retrieval_method, k, document_ids, kwOrder) ==
    LET method == MethodUsed(query, retrieval_method)
    IN  IF method = "similarity"
        THEN SimilaritySearch(store, fails, query, k, document_ids)
        ELSE IF method = "hybrid"
        THEN HybridSearch(store, fails, query, k, document_ids, kwOrder)
        ELSE IF method = "rerank"
        THEN RerankedSearch(store, fails, query, k, document_ids, kwOrder)
        ELSE SimilaritySearch(store, fails, query, k, document_ids)

RecognizedMethods == {"similarity", "hybrid", "rerank"}

MethodArgs == {NoMethod, Some("")} \cup {Some(m) : m \in RecognizedMethods \cup {"Hybrid"}}

\* document_ids: unset, the empty list, one document, two documents
DocIdArgs == {NoDocIds, Some(<<>>), Some(<<1>>), Some(<<1, 2>>)}

\* DocumentService.retrieve_documents, line 96: the retrieval_method of the
\* response, request.retrieval_method or _select_retrieval_method(query)
MethodReported(query, retrieval_method) ==
    IF TruthyStr(retrieval_method) THEN retrieval_method.val
    ELSE SelectedMethod[query]

\* the response to a call, compared with the response to the call before it
\* when that one had the same arguments (no other operation in between);
\* method_used is what retrieve_documents reports for a retrieve call
ResponseTo(c, r) ==
    [status |-> IF r.raised THEN "raised" ELSE "ok",
     value |-> r.docs,
     scored |-> r.scored,
     again |-> (call = c),
     prev |-> IF call = c THEN [status |-> ret.status, value |-> ret.value] ELSE NoPrev,
     method_used |-> IF c.op = "retrieve"
                     THEN MethodReported(c.query, c.retrieval_method) ELSE ""]

RetrieveWithConsuming(c) ==
    \E kwOrder \in KeywordOrders[c.query] :
        LET r == Retrieve(docStore, c.fails, c.query, c.retrieval_method,
                          c.k, c.document_ids, kwOrder)
        IN  /\ call' = c
            /\ ret' = ResponseTo(c, r)
            /\ docStore' = SelectSeq(docStore, LAMBDA d : d \notin Range(r.docs))
            /\ UNCHANGED <<nextDocId, memory, clock, conversations, deleted, frames>>

\* RetrievalService.retrieve called with the arguments of c
RetrieveWith(c) ==
    \E kwOrder \in KeywordOrders[c.query] :
        /\ call' = c
        /\ ret' = ResponseTo(c, Retrieve(docStore, c.fails, c.query, c.retrieval_method,
                                         c.k, c.document_ids, kwOrder))
        /\ UNCHANGED <<docStore, nextDocId, memory, clock, conversations, deleted, frames>>

\* one call of RetrievalService.retrieve
RetrieveCall ==
    /\ Idle
    /\ \E query \in Queries, retrieval_method \in MethodArgs, k \in 1..MaxK,
          document_ids \in DocIdArgs, fails \in BOOLEAN :
            RetrieveWith([op |-> "retrieve", query |-> query,
                          retrieval_method |-> retrieval_method, k |-> k,
                          document_ids |-> document_ids, fails |-> fails])

\* the same call made a second time, nothing else having happened since
RetrieveAgain ==
    /\ call.op = "retrieve"
    /\ ~ret.again
    /\ RetrieveWith(call)

(***************************************************************************)
(* The conversation memory (VectorStoreManager._store, collection          *)
(* "chat_memory").  memory lists the entries in the order the backend      *)
(* ranks and returns them, which is not the order of their timestamps.     *)
(***************************************************************************)
M_user == Q_cat_dog
M_assistant == T_cat_sat

\* the Document VectorStoreManager.add_message builds, lines 31-38
Entry(conversation_id, role, content, timestamp) ==
    [page_content |-> content,
     metadata |-> [conversation_id |-> conversation_id,
                   role |-> role,
                   timestamp |-> timestamp]]

\* ChatService._store_turn: add_message for the user message, then for the
\* answer.  datetime.utcnow() is read once per entry and has moved on in
\* between (an embedding is computed between the two readings).
StoreTurn ==
    /\ Idle
    /\ \E conversation_id \in Convs, fails \in BOOLEAN :
        /\ Stored + 2 <= MaxStored
        /\ call' = [op |-> "store_turn", conversation_id |-> conversation_id,
                    fails |-> fails]
        /\ IF fails
           THEN /\ UNCHANGED <<memory, clock>>
                /\ ret' = Response("raised", <<>>)
           ELSE /\ memory' \in Interleavings(memory,
                                 << Entry(conversation_id, "user", M_user, clock + 1),
                                    Entry(conversation_id, "assistant", M_assistant, clock + 2) >>)
                /\ clock' = clock + 2
                /\ ret' = Response("ok", <<>>)
        /\ UNCHANGED <<docStore, nextDocId, conversations, deleted, frames>>

OfAnyConversation(mem, conversation_id) == mem

\* Chroma's where / filter {"conversation_id": conversation_id}
OfConversation(mem, conversation_id) ==
    SelectSeq(mem, LAMBDA e : e.metadata.conversation_id = conversation_id)

\* VectorStoreManager.get_relevant_messages
GetRelevantMessages(mem, fails, conversation_id, query, k) ==
    IF fails THEN Returned(<<>>, <<>>)
    ELSE Returned(Take(OfConversation(mem, conversation_id), k), <<>>)

\* list.sort(key=...): ascending, equal keys keep their order; key[i] is
\* the sort key of s[i]
SortAscStable(s, key) ==
    LET n == Len(s)
        rank(i) == Cardinality({j \in 1..n : key[j] < key[i]})
                   + Cardinality({j \in 1..i : key[j] = key[i]})
    IN  [p \in 1..n |-> s[CHOOSE i \in 1..n : rank(i) = p]]

SliceFromOneShort(s, start) ==
    LET from == IF start < 0 THEN IntMax(Len(s) + start, 0) + 1 ELSE Min(start, Len(s))
    IN  SubSeq(s, from + 1, Len(s))

\* s[start:] for any integer start
SliceFrom(s, start) ==
    LET from == IF start < 0 THEN IntMax(Len(s) + start, 0) ELSE Min(start, Len(s))
    IN  SubSeq(s, from + 1, Len(s))

GetRecentMessagesUnsorted(mem, fails, conversation_id, limit) ==
    LET merged == OfConversation(mem, conversation_id)
    IN  IF fails THEN Returned(<<>>, <<>>)
        ELSE Returned(IF limit # 0 THEN SliceFrom(merged, -limit) ELSE merged, <<>>)

\* VectorStoreManager.get_recent_messages
GetRecentMessages(mem, fails, conversation_id, limit) ==
    LET found == OfConversation(mem, conversation_id)
        merged == SortAscStable(found, [i \in 1..Len(found) |-> found[i].metadata.timestamp])
    IN  IF fails THEN Returned(<<>>, <<>>)
        ELSE Returned(IF limit # 0 THEN SliceFrom(merged, -limit) ELSE merged, <<>>)

max_context_messages == 6

Limits == (-1..MaxK) \cup {max_context_messages}

\* one call of VectorStoreManager.get_relevant_messages
RelevantMemoryCall ==
    /\ Idle
    /\ \E conversation_id \in Convs, query \in {Q_cat_dog, Q_blank}, k \in 1..MaxK,
          fails \in BOOLEAN :
        LET c == [op |-> "relevant_memory", conversation_id |-> conversation_id,
                  query |-> query, k |-> k, fails |-> fails]
        IN  /\ call' = c
            /\ ret' = ResponseTo(c, GetRelevantMessages(memory, fails, conversation_id,
                                                        query, k))
            /\ UNCHANGED <<docStore, nextDocId, memory, clock, conversations, deleted, frames>>

\* one call of VectorStoreManager.get_recent_messages
RecentMemoryCall ==
    /\ Idle
    /\ \E conversation_id \in Convs, limit \in Limits, fails \in BOOLEAN :
        LET c == [op |-> "recent_memory", conversation_id |-> conversation_id,
                  limit |-> limit, fails |-> fails]
        IN  /\ call' = c
            /\ ret' = ResponseTo(c, GetRecentMessages(memory, fails, conversation_id, limit))
            /\ UNCHANGED <<docStore, nextDocId, memory, clock, conversations, deleted, frames>>

Init ==
    /\ IdleStores
    /\ call = NoCall
    /\ ret = NoRet

Next ==
    \/ StoreDocument
    \/ DeleteDocument
    \/ StoreTurn
    \/ RetrieveCall
    \/ RetrieveAgain
    \/ RelevantMemoryCall
    \/ RecentMemoryCall
    \/ Return

Spec == Init /\ [][Next]_vars

(***************************************************************************)
(* Conversations: the metadata collection of ConversationRepository        *)
(* ("conversation_metadata"), the chat turn that writes it and the memory, *)
(* and the deletion of a conversation.  conversations maps the ids that    *)
(* have a metadata record to their message_count.                          *)
(***************************************************************************)

\* ConversationRepository.create: message_count 0
Created(convs, conversation_id) ==
    [c \in DOMAIN convs \cup {conversation_id} |->
        IF c = conversation_id THEN 0 ELSE convs[c]]

\* chat(), lines 176-184: the metadata is created when get() finds none
Ensured(convs, conversation_id) ==
    IF conversation_id \in DOMAIN convs THEN convs ELSE Created(convs, conversation_id)

\* ConversationRepository.increment_message_count on an existing record
Incremented(convs, conversation_id) ==
    [convs EXCEPT ![conversation_id] = @ + 1]

\* ConversationRepository.delete: the record with that id is removed
WithoutConversation(convs, conversation_id) ==
    [c \in DOMAIN convs \ {conversation_id} |-> convs[c]]

\* ChatService.chat for one request.  outcome "backend": the vector backend
\* raises, get() answers None and create() lets the exception out;
\* "chain": the metadata is ensured, the context and the history are read,
\* and the LLM chain raises; "ok": the turn is stored after the reads and
\* the message_count is incremented.  The response records the history
\* _prepare_history read for the prompt.
ChatTurn ==
    /\ Idle
    /\ \E conversation_id \in Convs, outcome \in {"ok", "backend", "chain"} :
        LET history == GetRecentMessages(memory, FALSE, conversation_id,
                                         max_context_messages).docs
        IN  /\ Len(memory) + 2 <= 2 * MaxTurns
            /\ call' = [op |-> "chat", conversation_id |-> conversation_id,
                        outcome |-> outcome]
            /\ CASE outcome = "backend" ->
                      /\ UNCHANGED <<memory, clock, conversations>>
                      /\ ret' = Response("raised", <<>>)
                 [] outcome = "chain" ->
                      /\ conversations' = Ensured(conversations, conversation_id)
                      /\ UNCHANGED <<memory, clock>>
                      /\ ret' = Response("raised", history)
                 [] outcome = "ok" ->
                      /\ memory' \in Interleavings(memory,
                            << Entry(conversation_id, "user", M_user, clock + 1),
                               Entry(conversation_id, "assistant", M_assistant, clock + 2) >>)
                      /\ clock' = clock + 2
                      /\ conversations' =
                            Incremented(Ensured(conversations, conversation_id),
                                        conversation_id)
                      /\ ret' = Response("ok", history)
            /\ UNCHANGED <<docStore, nextDocId, deleted, frames>>

\* ConversationService.delete_conversation: only the metadata record is
\* deleted (lines 132-134); True, or False when the backend raises
DeleteConversation ==
    /\ Idle
    /\ \E conversation_id \in Convs, fails \in BOOLEAN :
        /\ call' = [op |-> "delete_conversation", conversation_id |-> conversation_id,
                    fails |-> fails]
        /\ IF fails
           THEN /\ conversations' = conversations
                /\ ret' = Response("ok", <<FALSE>>)
           ELSE /\ conversations' = WithoutConversation(conversations, conversation_id)
                /\ ret' = Response("ok", <<TRUE>>)
        /\ UNCHANGED <<docStore, nextDocId, memory, clock, deleted, frames>>

NextConv ==
    \/ ChatTurn
    \/ DeleteConversation
    \/ RelevantMemoryCall
    \/ RecentMemoryCall
    \/ Return

SpecConv == Init /\ [][NextConv]_vars

(***************************************************************************)
(* Properties of the memory reads.                                         *)
(***************************************************************************)
IsRecent == call.op = "recent_memory" /\ ret.status # "none"

IsRelevant == call.op = "relevant_memory" /\ ret.status # "none"

\* the stored entries whose conversation_id is that of the pending call
CallEntries ==
    {memory[i] : i \in {j \in 1..Len(memory) :
                            memory[j].metadata.conversation_id = call.conversation_id}}

Ascending(s) ==
    \A i, j \in 1..Len(s) : i < j => s[i].metadata.timestamp <= s[j].metadata.timestamp

\* C11: recent_memory(conversation_id, limit) returns entries of that
\* conversation in ascending timestamp order; for a positive limit they are
\* the last limit entries of the sorted conversation (all of them when fewer
\* exist), and for limit 0 they are all the entries.
C11_RecentIsSortedTail ==
    (IsRecent /\ ~call.fails /\ call.limit >= 0)
        => /\ ret.status = "ok"
           /\ Range(ret.value) \subseteq CallEntries
           /\ Ascending(ret.value)
           /\ Len(ret.value) = Cardinality(Range(ret.value))
           /\ Len(ret.value) = IF call.limit = 0 THEN Cardinality(CallEntries)
                               ELSE Min(call.limit, Cardinality(CallEntries))
           /\ \A e \in CallEntries \ Range(ret.value), r \in Range(ret.value) :
                 e.metadata.timestamp < r.metadata.timestamp

\* three or more entries the backend lists out of time order, limit 2
C11_Witness ==
    /\ IsRecent /\ ~call.fails
    /\ call.limit = 2
    /\ Cardinality(CallEntries) >= 3
    /\ ~Ascending(OfConversation(memory, call.conversation_id))
    /\ Len(ret.value) = 2

\* C12 as stated: for every conversation and every integer limit the
\* sequence recent_memory returns has between 0 and limit entries.
C12_LengthWithinLimit ==
    IsRecent => (0 <= Len(ret.value) /\ Len(ret.value) <= call.limit)

\* C12 amended: the returned sequence has at most limit entries for a
\* positive limit, every entry of the conversation for limit 0, and every
\* entry but the -limit earliest for a negative limit; it is empty when the
\* backend raises.
C12_LengthByLimit ==
    IsRecent
        => Len(ret.value) =
              IF call.fails THEN 0
              ELSE IF call.limit > 0 THEN Min(call.limit, Cardinality(CallEntries))
              ELSE IF call.limit = 0 THEN Cardinality(CallEntries)
              ELSE IntMax(Cardinality(CallEntries) + call.limit, 0)

\* limit 0 or negative, and more entries returned than limit
C12_Witness ==
    /\ IsRecent /\ ~call.fails
    /\ call.limit <= 0
    /\ Len(ret.value) >= 3
    /\ Len(ret.value) > call.limit

\* position of entry e in the backend's order
Rank(e) == CHOOSE i \in 1..Len(memory) : memory[i] = e

\* C15: after any chat turns over several conversations, every entry that
\* relevant_memory(c, query, k) or recent_memory(c, limit) returns carries
\* conversation_id c; relevant_memory returns at most k entries, in the
\* backend's relevance order, and none when c has no stored entry.
C15_ScopedToConversation ==
    (IsRelevant \/ IsRecent)
        => /\ ret.status = "ok"
           /\ \A i \in 1..Len(ret.value) :
                 /\ ret.value[i] \in Range(memory)
                 /\ ret.value[i].metadata.conversation_id = call.conversation_id
           /\ IsRelevant =>
                 /\ Len(ret.value) <= call.k
                 /\ \A i, j \in 1..Len(ret.value) :
                       i < j => Rank(ret.value[i]) < Rank(ret.value[j])
                 /\ (\A i \in 1..Len(memory) :
                        memory[i].metadata.conversation_id # call.conversation_id)
                      => ret.value = <<>>

\* two conversations stored, an entry of the other one ranked first, and
\* relevant_memory returning k entries of its own conversation
C15_Witness ==
    /\ IsRelevant /\ ~call.fails
    /\ Len(memory) = 4
    /\ memory[1].metadata.conversation_id # call.conversation_id
    /\ call.k = 2
    /\ Len(ret.value) = 2

\* C17 as stated: after delete_conversation(c) returned True no memory entry
\* with conversation_id c remains stored.
C17_DeleteRemovesMessages ==
    (call.op = "delete_conversation" /\ ret.status = "ok" /\ ret.value = <<TRUE>>)
        => CallEntries = {}

(***************************************************************************)
(* Properties of RetrievalService.retrieve and of the memory reads.        *)
(***************************************************************************)
IsRetrieve == call.op = "retrieve" /\ ret.status # "none"

\* the stored chunks a document_ids filter lets through
Allowed(document_ids) ==
    SelectSeq(docStore, LAMBDA c : c.metadata.document_id \in Range(document_ids.val))

\* C1: for every query, positive k, strategy (similarity, hybrid, rerank,
\* unset, unrecognized) and document_ids (unset or a list), retrieve returns
\* a list of at most k chunks; the backend search returns at most as many
\* candidates as it is asked for.
C1_AtMostK ==
    IsRetrieve => (ret.status = "ok" /\ Len(ret.value) <= call.k)

\* more than k stored chunks pass the filter, and k of them come back
C1_Witness ==
    /\ IsRetrieve
    /\ MethodUsed(call.query, call.retrieval_method) = "hybrid"
    /\ TruthyList(call.document_ids)
    /\ ~call.fails
    /\ Len(Allowed(call.document_ids)) > call.k
    /\ Len(ret.value) = call.k

\* C2: when the backend raises during the call, retrieve (every strategy,
\* with or without document_ids), relevant_memory and recent_memory return
\* an empty list and no exception leaves them.
C2_DegradesToEmpty ==
    (call.op \in {"retrieve", "relevant_memory", "recent_memory"} /\ call.fails)
        => (ret.status = "ok" /\ ret.value = <<>>)

C2_Witness ==
    /\ IsRetrieve
    /\ call.fails
    /\ MethodUsed(call.query, call.retrieval_method) = "rerank"
    /\ TruthyList(call.document_ids)
    /\ Allowed(call.document_ids) # <<>>
    /\ ret.status = "ok"
    /\ ret.value = <<>>

\* C3: retrieve called twice with the same query, strategy, k and
\* document_ids, the backend answering the same both times, returns the same
\* chunks in the same order, score ties included.
C3_RepeatIsIdentical ==
    (call.op = "retrieve" /\ ret.again)
        => (ret.status = ret.prev.status /\ ret.value = ret.prev.value)

\* a repeated hybrid call over two keywords whose candidates tie
C3_Witness ==
    /\ call.op = "retrieve" /\ ret.again
    /\ MethodUsed(call.query, call.retrieval_method) = "hybrid"
    /\ Cardinality(TokenSet(Lower(call.query))) = 2
    /\ Len(ret.value) = 2
    /\ Len(ret.scored) >= 2
    /\ REq(ret.scored[1].score, ret.scored[2].score)
    /\ ret.scored[1].score[1] > 0

IsUnrecognized(retrieval_method) ==
    /\ TruthyStr(retrieval_method)
    /\ retrieval_method.val \notin RecognizedMethods

\* C7: for a strategy name outside similarity, hybrid and rerank, retrieve
\* raises nothing and returns what it returns for similarity with the same
\* query, k and document_ids.  (The empty string is no name: retrieve takes
\* it for an unset strategy.)
C7_UnknownIsSimilarity ==
    (IsRetrieve /\ IsUnrecognized(call.retrieval_method))
        => /\ ret.status = "ok"
           /\ ret.value = Retrieve(docStore, call.fails, call.query, Some("similarity"),
                                   call.k, call.document_ids, <<>>).docs

\* an unrecognized name whose result differs from what hybrid would return
C7_Witness ==
    /\ IsRetrieve /\ IsUnrecognized(call.retrieval_method)
    /\ ret.value # <<>>
    /\ \E kwOrder \in KeywordOrders[call.query] :
          ret.value # HybridSearch(docStore, call.fails, call.query, call.k,
                                   call.document_ids, kwOrder).docs

\* the keyword_score the loop computed for the i-th candidate
KeywordScoreOf(i) ==
    IF MethodUsed(call.query, call.retrieval_method) = "hybrid"
    THEN ret.scored[i].score
    ELSE ret.scored[i].keyword_score

IsScoring ==
    /\ IsRetrieve
    /\ MethodUsed(call.query, call.retrieval_method) \in {"hybrid", "rerank"}

\* |query tokens that are tokens of the content| / |query tokens|
TokenOverlapScore(query, content) ==
    LET qt == TokenSet(Lower(query))
        ct == TokenSet(Lower(content))
    IN  IF qt = {} THEN Rat(0, 1) ELSE Rat(Cardinality(qt \cap ct), Cardinality(qt))

\* |query tokens that occur in the content as substrings| / |query tokens|
SubstringScore(query, content) ==
    LET qt == TokenSet(Lower(query))
    IN  IF qt = {} THEN Rat(0, 1)
        ELSE Rat(Cardinality({kw \in qt : Contains(Lower(content), kw)}), Cardinality(qt))

\* C8 as stated: in hybrid and rerank the keyword_score of every candidate is
\* the number of distinct lower-cased query tokens that are also whitespace
\* tokens of the lower-cased content, over the number of distinct query
\* tokens, and 0 for a query without tokens.
C8_KeywordScoreIsTokenOverlap ==
    IsScoring
        => \A i \in 1..Len(ret.scored) :
              REq(KeywordScoreOf(i),
                  TokenOverlapScore(call.query, ret.scored[i].doc.page_content))

\* C8 amended: the keyword_score of every candidate is the number of distinct
\* lower-cased query tokens that occur as substrings of the lower-cased
\* content (inside a longer word too), over the number of distinct query
\* tokens, and 0 for a query without tokens.
C8_KeywordScoreIsSubstringCount ==
    IsScoring
        => \A i \in 1..Len(ret.scored) :
              REq(KeywordScoreOf(i),
                  SubstringScore(call.query, ret.scored[i].doc.page_content))

\* a candidate that holds a query token only inside a longer word
C8_Witness ==
    /\ IsScoring
    /\ \E i \in 1..Len(ret.scored) :
          /\ RLt(TokenOverlapScore(call.query, ret.scored[i].doc.page_content),
                 KeywordScoreOf(i))
          /\ ret.scored[i].doc.page_content # Lower(ret.scored[i].doc.page_content)

(***************************************************************************)
(* Properties of the document_ids filter, of the reads as a whole, and of  *)
(* the deletion of a document.                                             *)
(***************************************************************************)
\* retrieve dispatches to _similarity_search itself (similarity, or a name
\* it does not recognize)
IsPlainSimilarity ==
    MethodUsed(call.query, call.retrieval_method) \notin {"hybrid", "rerank"}

InDocumentIds(doc) == doc.metadata.document_id \in Range(call.document_ids.val)

\* C13: with document_ids set, a candidate fetch for k takes the backend's
\* 2k best unfiltered candidates, keeps those whose document_id is in
\* document_ids in the backend's order and truncates to k; every chunk
\* retrieve returns, under any strategy, has its document_id in document_ids.
C13_FilterKeepsListedDocuments ==
    (IsRetrieve /\ TruthyList(call.document_ids))
        => /\ \A i \in 1..Len(ret.value) : InDocumentIds(ret.value[i])
           /\ (IsPlainSimilarity /\ ~call.fails)
                 => ret.value = Take(SelectSeq(Take(docStore, 2 * call.k), InDocumentIds),
                                     call.k)

\* a chunk of another document ranks first, a listed chunk ranks beyond k
\* and within 2k, and it is returned
C13_Witness ==
    /\ IsRetrieve /\ TruthyList(call.document_ids)
    /\ IsPlainSimilarity /\ ~call.fails
    /\ Len(docStore) > call.k
    /\ \A i \in 1..call.k : ~InDocumentIds(docStore[i])
    /\ ret.value # <<>>

\* the number of candidates the one backend search of a call is asked for
\* when document_ids is set: twice the pool of the strategy
FetchWindow ==
    LET method == MethodUsed(call.query, call.retrieval_method)
        pool == IF method = "hybrid" THEN call.k * 2
                ELSE IF method = "rerank" THEN call.k * 3
                ELSE call.k
    IN  pool * 2

\* C14: a retrieve call searches the backend once and does not fetch again:
\* with document_ids set it returns only chunks of that one over-fetched
\* window, so fewer than k (none at all) when fewer than k (none) of the
\* window belong to document_ids, whatever matching chunks rank below it.
C14_UnderfillIsNotRefetched ==
    (IsRetrieve /\ TruthyList(call.document_ids) /\ ~call.fails)
        => LET window == SelectSeq(Take(docStore, FetchWindow), InDocumentIds)
           IN  /\ Range(ret.value) \subseteq Range(window)
               /\ Len(ret.value) = Min(call.k, Len(window))

\* a listed chunk is stored below the window, and nothing is returned
C14_Witness ==
    /\ IsRetrieve /\ TruthyList(call.document_ids) /\ ~call.fails
    /\ Len(Allowed(call.document_ids)) >= call.k
    /\ Len(ret.value) < call.k
    /\ ret.value = <<>>

Reads == {"retrieve", "relevant_memory", "recent_memory"}

\* C16: retrieve, relevant_memory and recent_memory leave the stored chunks
\* and memory entries, their content and metadata, as they were, whether the
\* call succeeds or degrades to an empty result.
C16_ReadsLeaveIndexUnchanged ==
    [][call'.op \in Reads => (docStore' = docStore /\ memory' = memory)]_vars

\* a read that degraded to empty over stores that hold records
C16_Witness ==
    /\ call.op \in Reads /\ ret.status = "ok"
    /\ call.fails
    /\ ret.value = <<>>
    /\ docStore # <<>>
    /\ memory # <<>>

ChunksOf(store, document_id) ==
    SelectSeq(store, LAMBDA c : c.metadata.document_id = document_id)

ResultsWith(method) ==
    {Retrieve(docStore, call.fails, call.query, Some(method), call.k,
              call.document_ids, kwOrder).docs :
        kwOrder \in KeywordOrders[call.query]}

\* C20: with the strategy unset, retrieve returns the ordered result of
\* retrieve with select_strategy(query) as the strategy, same query, k and
\* document_ids, and the document retrieval reports that selected name.
C20_UnsetDelegatesToSelector ==
    (IsRetrieve /\ call.retrieval_method = NoMethod)
        => /\ ret.status = "ok"
           /\ ResultsWith(SelectRetrievalMethod(call.query)) = {ret.value}
           /\ ret.method_used = SelectRetrievalMethod(call.query)

\* an unset strategy on a query the selector sends to rerank, whose result
\* is not the one similarity gives
C20_Witness ==
    /\ IsRetrieve /\ call.retrieval_method = NoMethod
    /\ ~call.fails
    /\ ret.method_used = "rerank"
    /\ ret.value # <<>>
    /\ ret.value \notin ResultsWith("similarity")

(***************************************************************************)
(* Properties of the candidate pools and of the order of the results.      *)
(***************************************************************************)
\* the k the strategy of the pending call hands to _similarity_search
PoolSize ==
    LET method == MethodUsed(call.query, call.retrieval_method)
    IN  IF method = "hybrid" THEN call.k * 2
        ELSE IF method = "rerank" THEN call.k * 3
        ELSE call.k

\* the candidates the strategy worked on: the list it scored, or for
\* similarity the list it returned
Pool ==
    IF IsPlainSimilarity THEN ret.value
    ELSE [i \in 1..Len(ret.scored) |-> ret.scored[i].doc]

\* the pool a strategy gets when the backend is asked for `requested`
\* candidates
PoolFrom(requested) ==
    LET fetched == Take(docStore, requested)
        kept == IF TruthyList(call.document_ids)
                THEN SelectSeq(fetched, InDocumentIds) ELSE fetched
    IN  Take(kept, PoolSize)

PoolIndex(doc) == CHOOSE i \in 1..Len(ret.scored) : ret.scored[i].doc = doc

\* the score the strategy sorts by, for the i-th candidate of the pool
SortScoreOf(i) ==
    IF MethodUsed(call.query, call.retrieval_method) = "hybrid"
    THEN ret.scored[i].score
    ELSE RAdd(RAdd(RMul(ret.scored[i].keyword_score, Rat(1, 2)),
                   RMul(ret.scored[i].length_score, Rat(1, 5))),
              RMul(ret.scored[i].position_score, Rat(3, 10)))

\* the i-th candidate of the pool is ordered before the j-th by a stable
\* descending sort
Before(i, j) ==
    \/ RLt(SortScoreOf(j), SortScoreOf(i))
    \/ REq(SortScoreOf(i), SortScoreOf(j)) /\ i < j

\* the result is the first k candidates of the pool in stable descending order
IsStableTopK ==
    /\ Len(ret.value) = Min(call.k, Len(ret.scored))
    /\ Range(ret.value) \subseteq Range(Pool)
    /\ \A i, j \in 1..Len(ret.value) :
          i < j => Before(PoolIndex(ret.value[i]), PoolIndex(ret.value[j]))
    /\ \A p \in 1..Len(ret.scored), i \in 1..Len(ret.value) :
          ret.scored[p].doc \notin Range(ret.value) => Before(PoolIndex(ret.value[i]), p)

PageContents(docs) == [i \in 1..Len(docs) |-> docs[i].page_content]

IsHybrid == IsRetrieve /\ MethodUsed(call.query, call.retrieval_method) = "hybrid"

\* C22: the hybrid strategy returns the first k candidates of its pool after
\* a stable descending sort by keyword_score: a higher score precedes a lower
\* one, equal scores keep the incoming order, no candidate left out is ordered
\* before one returned; and the pool "the cat sat", "cat dog bird",
\* "unrelated text" with the query "cat dog" and k = 2 gives "cat dog bird",
\* "the cat sat".
C22_HybridIsStableTopK ==
    IsHybrid =>
        /\ IsStableTopK
        /\ (/\ call.query = Q_cat_dog
            /\ call.k = 2
            /\ PageContents(Pool) = <<T_cat_sat, T_cat_dog_bird, T_unrelated>>)
           => /\ PageContents(ret.value) = <<T_cat_dog_bird, T_cat_sat>>
              /\ [i \in 1..3 |-> ret.scored[i].score] = <<Rat(1, 2), Rat(1, 1), Rat(0, 1)>>

\* the pool of the example, and a pool of three with a tie across the cut
C22_Witness ==
    /\ IsHybrid
    /\ call.query = Q_cat_dog
    /\ call.k = 2
    /\ PageContents(Pool) = <<T_cat_sat, T_cat_dog_bird, T_unrelated>>
    /\ PageContents(ret.value) = <<T_cat_dog_bird, T_cat_sat>>

C22_WitnessTie ==
    /\ IsHybrid
    /\ call.k = 2
    /\ Len(ret.scored) = 3
    /\ REq(ret.scored[2].score, ret.scored[3].score)
    /\ RLt(ret.scored[1].score, ret.scored[2].score)
    /\ ret.value = <<ret.scored[2].doc, ret.scored[3].doc>>

IsRerank == IsRetrieve /\ MethodUsed(call.query, call.retrieval_method) = "rerank"

\* C23: the rerank strategy returns nothing when its pool is empty, and
\* otherwise the first k candidates of the pool after a stable descending sort
\* by keyword_score*0.5 + length_score*0.2 + position_score*0.3, candidates of
\* equal sum keeping the incoming order; the one-element tuples the code sorts
\* by compare exactly as these sums do.
C23_RerankIsStableTopK ==
    IsRerank =>
        /\ Pool = <<>> => ret.value = <<>>
        /\ IsStableTopK
        /\ \A i, j \in 1..Len(ret.scored) :
              /\ Len(ret.scored[i].final_score) = 1
              /\ REq(ret.scored[i].final_score[1], SortScoreOf(i))
              /\ TupleLt(ret.scored[i].final_score, ret.scored[j].final_score)
                    <=> RLt(SortScoreOf(i), SortScoreOf(j))

\* a pool whose second candidate beats the first and ties with the third,
\* cut between the two that tie
C23_Witness ==
    /\ IsRerank
    /\ call.k = 1
    /\ Len(ret.scored) = 3
    /\ REq(SortScoreOf(2), SortScoreOf(3))
    /\ RLt(SortScoreOf(1), SortScoreOf(2))
    /\ ret.value = <<ret.scored[2].doc>>

\* a rerank call that found its pool empty
C23_WitnessEmpty == IsRerank /\ Pool = <<>> /\ ret.value = <<>> /\ docStore # <<>>

(***************************************************************************)
(* The shape of length_score over the word count.                          *)
(***************************************************************************)
IsScored == call.op = "score" /\ ret.status = "ok"

\* the chunk of the call with one more word
OneWordMore == Chunk(1, 0, 1, call.doc.page_content \o <<" ", "z">>)

\* C24: the length_score of a chunk of w words is 1 - |w - 200| / 200 clamped
\* to [0, 1]: it is 1 only at w = 200, strictly increasing up to 200 words,
\* strictly decreasing from 200 to 400 words, and 0 at 0 words and from 400
\* words on.
C24_LengthScoreShape ==
    IsScored =>
        LET w == WordCount(call.doc.page_content)
            length_score == ret.value.length_score
            more == LengthScore(OneWordMore)
        IN  /\ WordCount(OneWordMore.page_content) = w + 1
            /\ length_score = IF w <= 400 THEN Rat(200 - Abs(w - 200), 200) ELSE Rat(0, 1)
            /\ REq(length_score, Rat(1, 1)) <=> w = 200
            /\ w < 200 => RLt(length_score, more)
            /\ (200 <= w /\ w < 400) => RLt(more, length_score)
            /\ (w = 0 \/ w >= 400) => REq(length_score, Rat(0, 1))
            /\ w >= 400 => REq(more, Rat(0, 1))

\* a chunk of more than 400 words, where the clamp acts
C24_Witness ==
    /\ IsScored
    /\ WordCount(call.doc.page_content) > 400
    /\ ret.value.length_score = Rat(0, 1)

\* the peak, and a chunk on each slope
C24_WitnessPeak ==
    /\ IsScored
    /\ WordCount(call.doc.page_content) = 200
    /\ ret.value.length_score = Rat(1, 1)
    /\ LengthScore(OneWordMore) = Rat(199, 200)

(***************************************************************************)
(* Concurrent reads.  The services are singletons (dependencies.py), so    *)
(* the requests the host runs at the same time call the same               *)
(* RetrievalService and VectorStoreManager objects.  A request holds its   *)
(* arguments and the list the backend returned in its own frame; the only  *)
(* attributes of the objects, _document_store and _store, are set in       *)
(* __init__ and read afterwards.  A read is three steps: the call, the one *)
(* query of the backend, and the statements after it up to the return.     *)
(***************************************************************************)
Requests == {1, 2}

IdleFrame == [pc |-> "idle", c |-> NoCall, fetched |-> <<>>, result |-> <<>>]

\* the index and the memory as two uploads, or one upload and one turn,
\* leave them
ReadBackends ==
    {[docStore |-> s, memory |-> <<>>] :
        s \in Interleavings(NewChunks(1, <<T_cat_dog_bird, T_unrelated>>),
                            NewChunks(2, <<T_cat_sat>>))}
    \cup
    {[docStore |-> NewChunks(1, <<T_cat_sat>>), memory |-> m] :
        m \in Interleavings(<<Entry(2, "user", M_user, 1)>>,
                            <<Entry(1, "user", M_user, 2),
                              Entry(1, "assistant", M_assistant, 3)>>)}

ReadCalls ==
    {[op |-> "retrieve", query |-> query, retrieval_method |-> Some(method), k |-> k,
      document_ids |-> document_ids, fails |-> fails] :
        query \in {Q_cat_dog}, method \in RecognizedMethods, k \in 1..MaxK,
        document_ids \in {NoDocIds, Some(<<1>>)}, fails \in BOOLEAN}
    \cup
    {[op |-> "relevant_memory", conversation_id |-> conversation_id, query |-> Q_cat_dog,
      k |-> k, fails |-> FALSE] : conversation_id \in Convs, k \in 1..MaxK}
    \cup
    {[op |-> "recent_memory", conversation_id |-> conversation_id, limit |-> limit,
      fails |-> fails] : conversation_id \in Convs, limit \in {0, 1}, fails \in BOOLEAN}

InitReads ==
    /\ \E b \in ReadBackends : docStore = b.docStore /\ memory = b.memory
    /\ nextDocId = 3
    /\ clock = 3
    /\ conversations = <<>>
    /\ deleted = {}
    /\ call = NoCall
    /\ ret = NoRet
    /\ frames = [r \in Requests |-> IdleFrame]

\* the host passes a request to the service
BeginRead(r) ==
    /\ frames[r].pc = "idle"
    /\ \E c \in ReadCalls : frames' = [frames EXCEPT ![r] = [IdleFrame EXCEPT !.pc = "called", !.c = c]]
    /\ UNCHANGED <<docStore, nextDocId, memory, clock, call, ret, conversations, deleted>>

\* the k that reaches DocumentStore.search_similar
FetchK(c) ==
    LET method == MethodUsed(c.query, c.retrieval_method)
        pool == IF method = "hybrid" THEN c.k * 2 ELSE IF method = "rerank" THEN c.k * 3 ELSE c.k
    IN  IF TruthyList(c.document_ids) THEN pool * 2 ELSE pool

\* what the one query of the backend returns to the request
BackendAnswer(c) ==
    IF c.op = "retrieve" THEN SearchSimilar(docStore, c.fails, c.query, FetchK(c)).docs
    ELSE IF c.op = "relevant_memory"
    THEN GetRelevantMessages(memory, c.fails, c.conversation_id, c.query, c.k).docs
    ELSE IF c.fails THEN <<>> ELSE OfConversation(memory, c.conversation_id)

\* search_similar, similarity_search or get, called by the request
SearchBackend(r) ==
    /\ frames[r].pc = "called"
    /\ frames' = [frames EXCEPT ![r].pc = "fetched", ![r].fetched = BackendAnswer(frames[r].c)]
    /\ UNCHANGED <<docStore, nextDocId, memory, clock, call, ret, conversations, deleted>>

\* a variant that keeps the list on the service object, where the requests
\* share it
FetchedOnInstance(r) ==
    frames[CHOOSE q \in Requests : frames[q].pc = "fetched"].fetched

\* the local variable that holds the list the backend returned
Fetched(r) == frames[r].fetched

\* the statements after the query of the backend: the filter, the scores, the
\* sort and the slice, which read the list and the arguments only
FinishRead(r) ==
    /\ frames[r].pc = "fetched"
    /\ LET c == frames[r].c
       IN  \E kwOrder \in (IF c.op = "retrieve" THEN KeywordOrders[c.query] ELSE {<<>>}) :
              frames' = [frames EXCEPT
                  ![r].pc = "returned",
                  ![r].result =
                      IF c.op = "retrieve"
                      THEN Retrieve(Fetched(r), FALSE, c.query, c.retrieval_method, c.k,
                                    c.document_ids, kwOrder).docs
                      ELSE IF c.op = "relevant_memory" THEN Fetched(r)
                      ELSE GetRecentMessages(Fetched(r), FALSE, c.conversation_id,
                                             c.limit).docs]
    /\ UNCHANGED <<docStore, nextDocId, memory, clock, call, ret, conversations, deleted>>

NextReads == \E r \in Requests : BeginRead(r) \/ SearchBackend(r) \/ FinishRead(r)

SpecReads == InitReads /\ [][NextReads]_vars

\* the results the call gives when no other request is running
Alone(c) ==
    IF c.op = "retrieve"
    THEN {Retrieve(docStore, c.fails, c.query, c.retrieval_method, c.k, c.document_ids,
                   kwOrder).docs : kwOrder \in KeywordOrders[c.query]}
    ELSE IF c.op = "relevant_memory"
    THEN {GetRelevantMessages(memory, c.fails, c.conversation_id, c.query, c.k).docs}
    ELSE {GetRecentMessages(memory, c.fails, c.conversation_id, c.limit).docs}

\* C25: in every interleaving of concurrent retrieve, relevant_memory and
\* recent_memory calls over an unchanged backend, each call returns the result
\* it returns when run alone, and that result is unique.
C25_ConcurrentReadsAreIndependent ==
    \A r \in DOMAIN frames :
        frames[r].pc = "returned"
            => /\ frames[r].result \in Alone(frames[r].c)
               /\ Cardinality(Alone(frames[r].c)) = 1

\* two different calls whose backend queries both happened before either
\* returned, with different answers
C25_Witness ==
    /\ DOMAIN frames = Requests
    /\ frames[1].pc = "returned"
    /\ frames[2].pc = "returned"
    /\ frames[1].fetched # frames[2].fetched
    /\ frames[1].result # frames[2].result
    /\ frames[1].result # <<>>
    /\ frames[2].result # <<>>

(***************************************************************************)
(* DocumentStore.store_document with the metadata argument of its caller.  *)
(* A dict is a function from its keys; the chunk metadata is kept to the   *)
(* keys document_id, chunk_count, chunk_index, total_chunks and those the  *)
(* caller adds.                                                            *)
(***************************************************************************)
\* dict.update(extra), {**base, ...extra}: the keys of extra win
Merge(base, extra) ==
    [key \in DOMAIN base \cup DOMAIN extra |->
        IF key \in DOMAIN extra THEN extra[key] ELSE base[key]]

\* a document id of the caller's own, which uuid4() never returns
CallerDocId == 0

EmptyDict == [key \in {} |-> 0]

\* metadata: dict | None = None
NoMetadata == [set |-> FALSE, val |-> EmptyDict]

CallerMetadata ==
    {NoMetadata,
     Some(EmptyDict),
     Some([file_size |-> 11]),
     Some([chunk_index |-> 7, total_chunks |-> 0, chunk_count |-> 9]),
     Some([document_id |-> CallerDocId])}

\* `if metadata:` is false for None and for {}
TruthyDict(metadata) == metadata.set /\ DOMAIN metadata.val # {}

\* store_document, lines 39-58: the Documents built from base_metadata, the
\* caller's metadata and the position of each chunk
NewChunksWith(document_id, chunks, metadata) ==
    LET base == [document_id |-> document_id, chunk_count |-> Len(chunks)]
        base_metadata == IF TruthyDict(metadata) THEN Merge(base, metadata.val) ELSE base
    IN  [idx \in 1..Len(chunks) |->
            [page_content |-> chunks[idx],
             metadata |-> Merge(base_metadata,
                                [chunk_index |-> idx - 1, total_chunks |-> Len(chunks)])]]

\* DocumentStore.store_document called with any metadata
StoreDocumentWith ==
    /\ Idle
    /\ nextDocId \in DocIds
    /\ \E chunks \in Uploads, metadata \in CallerMetadata, fails \in BOOLEAN :
        /\ Stored + Len(chunks) <= MaxStored
        /\ call' = [op |-> "store_document", metadata |-> metadata, fails |-> fails]
        /\ IF fails
           THEN /\ UNCHANGED <<docStore, nextDocId>>
                /\ ret' = Response("raised", <<>>)
           ELSE /\ docStore' \in Interleavings(docStore,
                                               NewChunksWith(nextDocId, chunks, metadata))
                /\ nextDocId' = nextDocId + 1
                /\ ret' = Response("ok", <<nextDocId>>)
        /\ UNCHANGED <<memory, clock, conversations, deleted, frames>>

NextMeta ==
    \/ StoreDocumentWith
    \/ DeleteDocument
    \/ Return

SpecMeta == Init /\ [][NextMeta]_vars

\* the chunk_index values stored for a document
IndexesOf(document_id) ==
    {c.metadata.chunk_index : c \in Range(ChunksOf(docStore, document_id))}

IndexedAsOneDocument(c) ==
    LET stored == ChunksOf(docStore, c.metadata.document_id)
    IN  /\ 0 <= c.metadata.chunk_index
        /\ c.metadata.chunk_index < c.metadata.total_chunks
        /\ c.metadata.total_chunks = Len(stored)
        /\ IndexesOf(c.metadata.document_id) = 0..(c.metadata.total_chunks - 1)
        /\ Cardinality(IndexesOf(c.metadata.document_id)) = Len(stored)

\* C26: after any sequence of store_document and delete_document calls every
\* stored chunk has 0 <= chunk_index < total_chunks, total_chunks is the
\* number of chunks stored for its document, and the chunk_index values of a
\* document are exactly 0..total_chunks-1 without duplicates, whatever
\* metadata the caller supplied.
C26_ChunkIndexesOfADocument ==
    \A c \in Range(docStore) : IndexedAsOneDocument(c)

\* what holds for any metadata: the position keys are those of store_document,
\* and the chunks under an id that store_document generated are indexed as
\* one document
C26_GeneratedDocumentsAreIndexed ==
    \A c \in Range(docStore) :
        /\ 0 <= c.metadata.chunk_index
        /\ c.metadata.chunk_index < c.metadata.total_chunks
        /\ c.metadata.document_id \in DocIds => IndexedAsOneDocument(c)

\* a caller tried to set the position keys, and a caller set document_id
C26_WitnessPositionKeys ==
    /\ call.op = "store_document"
    /\ ret.status = "ok"
    /\ call.metadata.set
    /\ "chunk_index" \in DOMAIN call.metadata.val
    /\ \E c \in Range(docStore) :
          c.metadata.document_id = ret.value[1] /\ c.metadata.chunk_count = 9

(***************************************************************************)
(* ChatService.chat step by step.  Each request runs the statements of     *)
(* chat() in order, one call of a backend per step, and keeps its locals   *)
(* in its frame.  The handlers are coroutines without an await, so one     *)
(* server process runs the turns one after another; several server         *)
(* processes over the same Chroma directory, or callers on several         *)
(* threads, interleave them at the backend calls, which is what the steps  *)
(* below allow.  The vector backend raises only in the insertions and the  *)
(* LLM chain may raise; the reads of a turn are guarded and the turn goes  *)
(* on with what they return.                                               *)
(***************************************************************************)
NoCount == -1

ChatFrame ==
    [pc |-> "idle", conversation_id |-> 0, created |-> FALSE, missed |-> FALSE,
     relevant_calls |-> 0, recent_calls |-> 0, relevant |-> <<>>, history |-> <<>>,
     stored |-> <<>>, current_count |-> NoCount, message_count |-> NoCount]

\* no conversation yet, or conversation 1 created by POST /conversations
InitChat ==
    /\ docStore = <<>>
    /\ nextDocId = 1
    /\ memory = <<>>
    /\ clock = 0
    /\ deleted = {}
    /\ call = NoCall
    /\ ret = NoRet
    /\ conversations \in {<<>>, Created(<<>>, 1)}
    /\ frames = [r \in Requests |-> ChatFrame]

ChatUnchanged == UNCHANGED <<docStore, nextDocId, call, ret, deleted>>

\* another request is between the delete and the add_documents of update()
\* on the same conversation
Replacing(r) ==
    \E q \in Requests \ {r} :
        /\ frames[q].pc = "update_add"
        /\ frames[q].conversation_id = frames[r].conversation_id

\* line 173: the request arrives with its conversation_id
BeginChat(r) ==
    /\ frames[r].pc = "idle"
    /\ \E conversation_id \in Convs :
          frames' = [frames EXCEPT ![r].pc = "get", ![r].conversation_id = conversation_id]
    /\ UNCHANGED <<memory, clock, conversations>>
    /\ ChatUnchanged

\* line 176: existing = self._conversation_repository.get(conversation_id)
GetExisting(r) ==
    /\ frames[r].pc = "get"
    /\ LET existing == frames[r].conversation_id \in DOMAIN conversations
       IN  frames' = [frames EXCEPT
                ![r].pc = IF existing THEN "relevant" ELSE "create",
                ![r].missed = ~existing /\ Replacing(r)]
    /\ UNCHANGED <<memory, clock, conversations>>
    /\ ChatUnchanged

\* lines 177-184: create() adds the record with message_count 0 under the
\* id of the conversation, replacing a record another request added since
CreateMetadata(r) ==
    /\ frames[r].pc = "create"
    /\ conversations' = Created(conversations, frames[r].conversation_id)
    /\ frames' = [frames EXCEPT ![r].pc = "relevant", ![r].created = TRUE]
    /\ UNCHANGED <<memory, clock>>
    /\ ChatUnchanged

\* line 186, _prepare_context: get_relevant_messages(conversation_id, query)
\* with its default k = 4
PrepareContext(r) ==
    /\ frames[r].pc = "relevant"
    /\ frames' = [frames EXCEPT
          ![r].pc = "recent",
          ![r].relevant_calls = @ + 1,
          ![r].relevant = GetRelevantMessages(memory, FALSE, frames[r].conversation_id,
                                              M_user, 4).docs]
    /\ UNCHANGED <<memory, clock, conversations>>
    /\ ChatUnchanged

\* line 187, _prepare_history: get_recent_messages(conversation_id, limit)
PrepareHistory(r) ==
    /\ frames[r].pc = "recent"
    /\ frames' = [frames EXCEPT
          ![r].pc = "chain",
          ![r].recent_calls = @ + 1,
          ![r].history = GetRecentMessages(memory, FALSE, frames[r].conversation_id,
                                           max_context_messages).docs]
    /\ UNCHANGED <<memory, clock, conversations>>
    /\ ChatUnchanged

\* lines 188-193: the chain answers or raises
InvokeChain(r) ==
    /\ frames[r].pc = "chain"
    /\ \E raises \in BOOLEAN :
          frames' = [frames EXCEPT ![r].pc = IF raises THEN "failed" ELSE "store_user"]
    /\ UNCHANGED <<memory, clock, conversations>>
    /\ ChatUnchanged

\* a variant of add_message that writes each role of a conversation under
\* one id, replacing the entry stored before
WithMessageReplacing(mem, entry) ==
    {SelectSeq(mem, LAMBDA e : ~(/\ e.metadata.conversation_id = entry.metadata.conversation_id
                                 /\ e.metadata.role = entry.metadata.role))
        \o <<entry>>}

\* VectorStoreManager.add_message: one Document added under a fresh uuid;
\* it may rank anywhere among those stored
WithMessage(mem, entry) == Interleavings(mem, <<entry>>)

\* one add_message of _store_turn, lines 167-168; the exception of the
\* backend is not caught and ends the turn
AddMessage(r, role, content, next) ==
    /\ \E raises \in BOOLEAN :
          IF raises
          THEN /\ frames' = [frames EXCEPT ![r].pc = "failed"]
               /\ UNCHANGED <<memory, clock>>
          ELSE LET entry == Entry(frames[r].conversation_id, role, content, clock + 1)
               IN  /\ memory' \in WithMessage(memory, entry)
                   /\ clock' = clock + 1
                   /\ frames' = [frames EXCEPT ![r].pc = next,
                                               ![r].stored = Append(@, entry)]
    /\ UNCHANGED conversations
    /\ ChatUnchanged

StoreUserMessage(r) ==
    /\ frames[r].pc = "store_user"
    /\ AddMessage(r, "user", M_user, "store_assistant")

StoreAssistantMessage(r) ==
    /\ frames[r].pc = "store_assistant"
    /\ AddMessage(r, "assistant", M_assistant, "increment_get")

\* increment_message_count, lines 131-133: metadata = self.get(...)
IncrementGet(r) ==
    /\ frames[r].pc = "increment_get"
    /\ LET found == frames[r].conversation_id \in DOMAIN conversations
       IN  frames' = [frames EXCEPT
                ![r].pc = IF found THEN "update_get" ELSE "done",
                ![r].missed = @ \/ (~found /\ Replacing(r)),
                ![r].current_count =
                    IF found THEN conversations[frames[r].conversation_id] ELSE NoCount]
    /\ UNCHANGED <<memory, clock, conversations>>
    /\ ChatUnchanged

\* update(message_count=current_count + 1), lines 99-104: the record is read
\* again and the new count is put into the copy
UpdateGet(r) ==
    /\ frames[r].pc = "update_get"
    /\ LET found == frames[r].conversation_id \in DOMAIN conversations
       IN  frames' = [frames EXCEPT
                ![r].pc = IF found THEN "update_delete" ELSE "done",
                ![r].missed = @ \/ (~found /\ Replacing(r)),
                ![r].message_count = IF found THEN frames[r].current_count + 1 ELSE NoCount]
    /\ UNCHANGED <<memory, clock, conversations>>
    /\ ChatUnchanged

\* update, line 109: self._store.delete(ids=[conversation_id])
UpdateDelete(r) ==
    /\ frames[r].pc = "update_delete"
    /\ conversations' = WithoutConversation(conversations, frames[r].conversation_id)
    /\ frames' = [frames EXCEPT ![r].pc = "update_add"]
    /\ UNCHANGED <<memory, clock>>
    /\ ChatUnchanged

\* update, line 114: add_documents([document], ids=[conversation_id])
UpdateAdd(r) ==
    /\ frames[r].pc = "update_add"
    /\ conversations' =
          [c \in DOMAIN conversations \cup {frames[r].conversation_id} |->
              IF c = frames[r].conversation_id THEN frames[r].message_count
              ELSE conversations[c]]
    /\ frames' = [frames EXCEPT ![r].pc = "done"]
    /\ UNCHANGED <<memory, clock>>
    /\ ChatUnchanged

NextChat ==
    \E r \in Requests :
        \/ BeginChat(r)
        \/ GetExisting(r)
        \/ CreateMetadata(r)
        \/ PrepareContext(r)
        \/ PrepareHistory(r)
        \/ InvokeChain(r)
        \/ StoreUserMessage(r)
        \/ StoreAssistantMessage(r)
        \/ IncrementGet(r)
        \/ UpdateGet(r)
        \/ UpdateDelete(r)
        \/ UpdateAdd(r)

SpecChat == InitChat /\ [][NextChat]_vars

(***************************************************************************)
(* Properties of one chat turn and of the message_count.                   *)
(***************************************************************************)
TurnsOn(c) == {r \in DOMAIN frames : frames[r].conversation_id = c}

\* the turns on c that returned
Completed(c) == {r \in TurnsOn(c) : frames[r].pc = "done"}

\* the turns on c that ended in the exception of their second add_message
FailedAfterUser(c) ==
    {r \in TurnsOn(c) : frames[r].pc = "failed" /\ Len(frames[r].stored) = 1}

\* every turn on c has ended
Quiet(c) == \A r \in TurnsOn(c) : frames[r].pc \in {"done", "failed"}

PastReads == {"chain", "store_user", "store_assistant", "increment_get", "update_get",
              "update_delete", "update_add", "done"}

\* the two reads of the memory are made once each and before the insertions;
\* the user entry is inserted before the assistant entry; what a turn
\* inserted stays stored as it was inserted; the reads of a turn do not hold
\* its own entries
TurnOrder(r) ==
    LET f == frames[r]
    IN  /\ f.relevant_calls <= 1
        /\ f.recent_calls <= 1
        /\ (f.pc \in PastReads \/ f.stored # <<>>)
              => (f.relevant_calls = 1 /\ f.recent_calls = 1)
        /\ Len(f.stored) <= 2
        /\ f.pc \in {"increment_get", "update_get", "update_delete", "update_add", "done"}
              => Len(f.stored) = 2
        /\ Len(f.stored) >= 1 => f.stored[1].metadata.role = "user"
        /\ Len(f.stored) = 2
              => /\ f.stored[2].metadata.role = "assistant"
                 /\ f.stored[1].metadata.timestamp < f.stored[2].metadata.timestamp
        /\ Range(f.stored) \subseteq Range(memory)
        /\ Range(f.stored) \cap (Range(f.relevant) \cup Range(f.history)) = {}

\* the memory holds what the turns inserted and nothing else
OnlyInserted ==
    /\ Range(memory) = UNION {Range(frames[r].stored) : r \in DOMAIN frames}
    /\ Cardinality(Range(memory)) = Len(memory)

\* C27 as stated: in every chat turn relevant_memory and recent_memory are
\* each called once and return before the entries of the turn are inserted,
\* the user entry then the assistant entry are appended and no earlier entry
\* changes, so the reads never return the messages of their own turn, and
\* after n completed turns on a conversation exactly 2n entries are stored
\* for it.
C27_TurnStoresTwoEntries ==
    /\ \A r \in DOMAIN frames : TurnOrder(r)
    /\ DOMAIN frames # {} => OnlyInserted
    /\ \A c \in Convs :
          (DOMAIN frames # {} /\ Quiet(c))
              => Len(OfConversation(memory, c)) = 2 * Cardinality(Completed(c))

\* C27 amended: the same order of the reads and the insertions, and after n
\* completed turns on a conversation the entries stored for it are 2n plus
\* one for every turn that failed between its two insertions.
C27_TurnStoresTwoEntriesOrOne ==
    /\ \A r \in DOMAIN frames : TurnOrder(r)
    /\ DOMAIN frames # {} => OnlyInserted
    /\ \A c \in Convs :
          (DOMAIN frames # {} /\ Quiet(c))
              => Len(OfConversation(memory, c))
                    = 2 * Cardinality(Completed(c)) + Cardinality(FailedAfterUser(c))

\* two completed turns on one conversation, the second having read the
\* entries of the first
C27_Witness ==
    /\ DOMAIN frames = Requests
    /\ Completed(1) = Requests
    /\ Len(OfConversation(memory, 1)) = 4
    /\ Len(frames[2].history) = 2
    /\ Range(frames[2].history) = Range(frames[1].stored)
    /\ frames[1].history = <<>>

\* a turn that failed after its user entry was stored, and a completed one
C27_WitnessFailed ==
    /\ DOMAIN frames = Requests
    /\ Quiet(1)
    /\ Cardinality(Completed(1)) = 1
    /\ Cardinality(FailedAfterUser(1)) = 1
    /\ Len(OfConversation(memory, 1)) = 3

\* the turns on c that ran create()
Creators(c) == {r \in TurnsOn(c) : frames[r].created}

\* C29: when N interleaved chat turns on one existing conversation have all
\* completed, its message_count has grown by exactly N, and no get() found the
\* record missing while an update() of another turn was replacing it.
C29_NoIncrementIsLost ==
    /\ \A r \in DOMAIN frames : ~frames[r].missed
    /\ \A c \in Convs :
          (/\ DOMAIN frames # {}
           /\ Quiet(c)
           /\ Creators(c) = {}
           /\ TurnsOn(c) = Completed(c)
           /\ TurnsOn(c) # {})
              => /\ c \in DOMAIN conversations
                 /\ conversations[c] = Cardinality(Completed(c))

\* the same for the count alone
C29_CountGrowsByN ==
    \A c \in Convs :
        (/\ DOMAIN frames # {}
         /\ Creators(c) = {}
         /\ TurnsOn(c) = Completed(c)
         /\ TurnsOn(c) # {})
            => /\ c \in DOMAIN conversations
               /\ conversations[c] = Cardinality(Completed(c))

\* the same for the reads of the record alone
C29_NoGetMissesTheRecord == \A r \in DOMAIN frames : ~frames[r].missed

\* turns that run one after the other lose nothing
C29_SequentialTurnsCount ==
    (/\ DOMAIN frames = Requests
     /\ Completed(1) = Requests
     /\ Creators(1) = {}
     /\ frames[2].history # <<>>
     /\ frames[2].current_count = 1)
        => (1 \in DOMAIN conversations /\ conversations[1] = 2)

(***************************************************************************)
(* Empty arguments of retrieve.                                            *)
(***************************************************************************)
\* the results of the pending call with one argument replaced
ResultsWithDocumentIds(document_ids) ==
    {Retrieve(docStore, call.fails, call.query, call.retrieval_method, call.k,
              document_ids, kwOrder).docs : kwOrder \in KeywordOrders[call.query]}

ResultsWithMethod(retrieval_method) ==
    {Retrieve(docStore, call.fails, call.query, retrieval_method, call.k,
              call.document_ids, kwOrder).docs : kwOrder \in KeywordOrders[call.query]}

\* C28: retrieve with document_ids = [] filters nothing, takes its pool from
\* the un-doubled number of best-ranked chunks and returns what retrieve with
\* document_ids unset returns; retrieve with the strategy "" selects the
\* strategy from the query, as with the strategy unset.
C28_EmptyArgumentsAreUnset ==
    IsRetrieve =>
        /\ call.document_ids = Some(<<>>)
              => /\ ResultsWithDocumentIds(NoDocIds) = {ret.value}
                 /\ ~call.fails => Pool = Take(docStore, PoolSize)
        /\ call.retrieval_method = Some("")
              => /\ ResultsWithMethod(NoMethod) = {ret.value}
                 /\ ret.method_used = SelectRetrievalMethod(call.query)
                 /\ MethodUsed(call.query, call.retrieval_method)
                       = SelectRetrievalMethod(call.query)

\* a call with both arguments empty over a filled index: chunks come back,
\* chosen by the strategy selected for the query
C28_Witness ==
    /\ IsRetrieve
    /\ call.document_ids = Some(<<>>)
    /\ call.retrieval_method = Some("")
    /\ SelectRetrievalMethod(call.query) = "rerank"
    /\ Len(ret.scored) = 3
    /\ Len(ret.value) = call.k
    /\ ret.value # Take(docStore, call.k)

(***************************************************************************)
(* DocumentProcessor.chunk_text.  frames holds the locals of the one call: *)
(* the arguments, start and chunks.  None and 0 are the same to            *)
(* `chunk_size or self.CHUNK_SIZE`, so an unset argument is 0.             *)
(***************************************************************************)
CHUNK_SIZE == 1000

CHUNK_OVERLAP == 200

\* the 200 of `break_point > chunk_size - 200`, line 82
EarliestBreak == 200

\* iterations of the loop that are followed
MaxChunks == 5

\* s[a:b] for any integers a and b
Slice(s, a, b) ==
    LET clamp(i) == IF i < 0 THEN IntMax(Len(s) + i, 0) ELSE Min(i, Len(s))
    IN  SubSeq(s, clamp(a) + 1, clamp(b))

\* s.rfind(pat): the highest index where pat starts in s, or -1
RFind(s, pat) ==
    LET hits == {i \in 0..(Len(s) - Len(pat)) : SubSeq(s, i + 1, i + Len(pat)) = pat}
    IN  IF hits = {} THEN -1 ELSE CHOOSE i \in hits : \A j \in hits : j <= i

\* s.strip()
Strip(s) ==
    LET inked == {i \in 1..Len(s) : ~IsSpace(s[i])}
    IN  IF inked = {} THEN <<>>
        ELSE SubSeq(s, CHOOSE i \in inked : \A j \in inked : i <= j,
                       CHOOSE i \in inked : \A j \in inked : j <= i)

\* n letters with a sentence end or a newline written at index p (from 0),
\* or without one when p < 0
LongText(n, p, mark) ==
    [i \in 1..n |-> IF p >= 0 /\ i = p + 1 THEN mark[1]
                    ELSE IF p >= 0 /\ Len(mark) = 2 /\ i = p + 2 THEN mark[2]
                    ELSE "a"]

\* short texts over letters, periods, blanks and newlines, cut with chunk
\* sizes below EarliestBreak
SmallCalls ==
    {[text |-> text, chunk_size |-> p[1], overlap |-> p[2]] :
        text \in UNION {[1..n -> {"a", ".", " ", "\n"}] : n \in 3..4},
        p \in {<<2, 1>>, <<3, 1>>, <<3, 2>>}}

\* texts a little longer than a chunk of 203, with a boundary early or late
WideCalls ==
    {[text |-> LongText(210, p, mark), chunk_size |-> 203, overlap |-> overlap] :
        p \in {-1, 3, 4, 5, 150, 201}, mark \in {<<".", " ">>, <<"\n">>},
        overlap \in {4, 5}}

\* the call DocumentService.upload_document makes: both sizes unset
DefaultCalls ==
    {[text |-> LongText(n, p, <<".", " ">>), chunk_size |-> 0, overlap |-> 0] :
        n \in {900, 1100}, p \in {-1, 800, 801, 998}}

ChunkCalls == SmallCalls \cup WideCalls \cup DefaultCalls

InitChunk ==
    /\ docStore = <<>>
    /\ nextDocId = 1
    /\ memory = <<>>
    /\ clock = 0
    /\ conversations = <<>>
    /\ deleted = {}
    /\ call = NoCall
    /\ ret = NoRet
    /\ \E c \in ChunkCalls :
          frames = [pc |-> "call", text |-> c.text, chunk_size |-> c.chunk_size,
                    overlap |-> c.overlap, start |-> 0, chunks |-> <<>>]

ChunkUnchanged ==
    UNCHANGED <<docStore, nextDocId, memory, clock, call, ret, conversations, deleted>>

\* lines 62-69: the defaults, the text that fits one chunk, start = 0
ChunkBegin ==
    /\ frames.pc = "call"
    /\ LET chunk_size == IF frames.chunk_size # 0 THEN frames.chunk_size ELSE CHUNK_SIZE
           overlap == IF frames.overlap # 0 THEN frames.overlap ELSE CHUNK_OVERLAP
       IN  frames' = IF Len(frames.text) <= chunk_size
                     THEN [frames EXCEPT !.pc = "returned", !.chunk_size = chunk_size,
                                         !.overlap = overlap, !.chunks = <<frames.text>>]
                     ELSE [frames EXCEPT !.pc = "loop", !.chunk_size = chunk_size,
                                         !.overlap = overlap]
    /\ ChunkUnchanged

\* lines 72-84: the end of the chunk that starts at start, after the cut at
\* a sentence end or a newline
ChunkEnd(text, chunk_size, start) ==
    LET end == start + chunk_size
        chunk == Slice(text, start, end)
        last_period == RFind(chunk, <<".", " ">>)
        last_newline == RFind(chunk, <<"\n">>)
        break_point == IntMax(last_period, last_newline)
    IN  IF end < Len(text) /\ break_point > chunk_size - EarliestBreak
        THEN start + break_point + 1
        ELSE end

\* one iteration of the loop, lines 71-87
ChunkStep ==
    /\ frames.pc = "loop"
    /\ frames.start < Len(frames.text)
    /\ Len(frames.chunks) < MaxChunks
    /\ LET end == ChunkEnd(frames.text, frames.chunk_size, frames.start)
           chunk == Slice(Slice(frames.text, frames.start, frames.start + frames.chunk_size),
                          0, end - frames.start)
       IN  frames' = [frames EXCEPT !.chunks = Append(@, Strip(chunk)),
                                    !.start = end - frames.overlap]
    /\ ChunkUnchanged

\* lines 71 and 89: the condition of the loop is false, chunks is returned
ChunkReturn ==
    /\ frames.pc = "loop"
    /\ frames.start >= Len(frames.text)
    /\ frames' = [frames EXCEPT !.pc = "returned"]
    /\ ChunkUnchanged

NextChunk == ChunkBegin \/ ChunkStep \/ ChunkReturn

SpecChunk == InitChunk /\ [][NextChunk]_vars

\* C30: chunk_text terminates for every text and every chunk_size and overlap
\* with 0 < overlap < chunk_size, because each iteration of the loop moves
\* start forward, whether or not the chunk was cut at a boundary.
C30_EachIterationAdvances ==
    [][(ChunkStep /\ 0 < frames.overlap /\ frames.overlap < frames.chunk_size)
          => frames'.start > frames.start]_vars

\* the same as a property of the states: start is an offset into the text
C30_StartStaysInText ==
    ("start" \in DOMAIN frames /\ 0 < frames.overlap /\ frames.overlap < frames.chunk_size)
        => frames.start >= 0

\* what holds: start moves forward in every iteration when a chunk is at
\* least EarliestBreak - 1 longer than the overlap, as with the default sizes
C30_AdvancesWhenStepIsWide ==
    [][(ChunkStep /\ frames.chunk_size - frames.overlap >= EarliestBreak - 1)
          => frames'.start > frames.start]_vars

\* and then the loop is over before MaxChunks iterations on these texts
C30_WideStepReturns ==
    ("start" \in DOMAIN frames /\ frames.pc = "loop"
        /\ frames.chunk_size - frames.overlap >= EarliestBreak - 1)
        => ~(Len(frames.chunks) = MaxChunks /\ frames.start < Len(frames.text))

\* a call with chunk_size 3 and overlap 1 still in its loop after MaxChunks
\* iterations, start behind the beginning of the text
C30_WitnessStuck ==
    /\ "start" \in DOMAIN frames
    /\ frames.pc = "loop"
    /\ frames.chunk_size = 3
    /\ frames.overlap = 1
    /\ Len(frames.chunks) = MaxChunks
    /\ frames.start < 0
    /\ \A i \in 1..MaxChunks : frames.chunks[i] = <<>>

====
